---- MODULE Spec2Model ----
(***************************************************************************)
(* Dynamic causal graph with experts: the orchestrator's per-event         *)
(* pipeline (node upsert, candidate gating, budget, debate, edge upsert,   *)
(* decay, alert), the event log it writes, and the replay of that log.     *)
(*                                                                         *)
(* Units.  Real numbers (weights, confidences, probabilities, decay        *)
(* factors) are fixed-point integers with FS = 1.0.  The wall clock `now`  *)
(* counts half days (TicksPerDay ticks to a day).  Event timestamps count  *)
(* units of TsMinutes minutes.  Money counts 1/10000 USD.                  *)
(***************************************************************************)
EXTENDS Integers, Sequences, FiniteSets, TLC

\* ------------------------------------------------------------------ bounds
MaxInserts == 3
MaxDebates == 2
MaxNow == 9
LongWait == 8
MaxCycles == 2
MaxLogRows == 3
MaxRounds == 2
GateMaxCap == 2
GateMaxKnown == 2

\* ------------------------------------------------------------ units, None
FS == 10^4
TicksPerDay == 2
TsMinutes == 90
NoneVal == "<None>"

Max(a, b) == IF a >= b THEN a ELSE b
Min(a, b) == IF a <= b THEN a ELSE b
Abs(a) == IF a >= 0 THEN a ELSE -a
Truthy(v) == v # NoneVal /\ v # ""

\* datetime.isoformat() and datetime.fromisoformat(): the string form is a
\* different value from the datetime it encodes.
IsoFormat(t) == <<"iso", t>>
FromIsoFormat(s) == s[2]

\* json.dumps(payload) as stored in the payload column, and a stored text
\* that is not JSON.
JsonDumps(obj) == [text |-> "json", obj |-> obj]
EmptyPayload == [empty |-> TRUE]

\* ------------------------------------------------------------------ config
price_event_days == 2
news_days == 10
filing_days == 20
macro_days == 90
social_days == 4
default_half_life == 6
alpha_blend == 7000
initial_edge_weight == 5500
min_confidence_to_add == 5000
max_candidate_edges_per_node == 10
max_time_lag_minutes == 16
max_bar_lag_minutes == 1
est_usd_per_edge == 5
horizon_minutes == 90
spread_sigma_k == 10000
min_probability == 6500
prune_floor == 500

DefaultConfig ==
    [ half_lives |-> [ price_event |-> price_event_days, news |-> news_days,
                       filing |-> filing_days, macro |-> macro_days,
                       social |-> social_days ],
      alpha_blend |-> alpha_blend,
      initial_edge_weight |-> initial_edge_weight,
      min_confidence_to_add |-> min_confidence_to_add,
      max_candidate_edges_per_node |-> max_candidate_edges_per_node,
      max_time_lag_minutes |-> max_time_lag_minutes,
      max_bar_lag_minutes |-> max_bar_lag_minutes,
      allow_cross_ticker_within_sector |-> TRUE,
      allow_supply_chain_links |-> TRUE,
      allow_macro_to_sector_or_ticker |-> TRUE,
      daily_usd_cap |-> 10000,
      est_usd_per_edge |-> est_usd_per_edge,
      minutes |-> horizon_minutes,
      spread_sigma_k |-> spread_sigma_k,
      min_probability |-> min_probability,
      rth_enforce |-> TRUE,
      require_price_event |-> TRUE ]

\* The configurations the model runs under: the defaults with the daily
\* budget set for a cap of 2 evaluations and trading-session gating off,
\* and that configuration with one setting changed: a budget below one
\* evaluation (cap 1), gating enforced, a news half-life of 0 days (the
\* hl <= 0 branch of decay).  tz is the offset of the machine's local time
\* zone from UTC, in clock ticks.
BaseConfig ==
    [DefaultConfig EXCEPT !.daily_usd_cap = 2 * est_usd_per_edge,
                          !.rth_enforce = FALSE]
Setups ==
    { [cfg |-> BaseConfig, tz |-> 0],
      [cfg |-> BaseConfig, tz |-> 1],
      [cfg |-> [BaseConfig EXCEPT !.daily_usd_cap = 0], tz |-> 0],
      [cfg |-> [BaseConfig EXCEPT !.rth_enforce = TRUE], tz |-> 0],
      [cfg |-> [BaseConfig EXCEPT !.half_lives = [@ EXCEPT !.news = 0]], tz |-> 0] }

\* cfg.universe_meta: sector and peers of the universe's tickers.
Universe == {"AAPL", "MSFT"}
sectors == [t \in Universe |-> "tech"]
peers == [t \in Universe |-> IF t = "AAPL" THEN {"MSFT"} ELSE {}]

\* ------------------------------------------------------------------ events
\* A text is a sequence of tokens; the empty text <<>> stands for "" and for
\* None alike (every reader takes `text or ""`).  caps: the token is a run of
\* A-Z only; cash: it is written with a leading '$'; p5: its first five
\* letters.
Tok(w, len, caps, cash, p5) ==
    [w |-> w, len |-> len, caps |-> caps, cash |-> cash, p5 |-> p5]
Word(w) == Tok(w, 4, FALSE, FALSE, w)
Sym(w) == Tok(w, 4, TRUE, FALSE, w)

\* Event (dataclass): id, type, ticker, ts, attrs, summary.
Event(id, type, ticker, ts, headline, summary) ==
    [id |-> id, type |-> type, ticker |-> ticker, ts |-> ts,
     attrs |-> [headline |-> headline], summary |-> summary]

\* Event.to_node
to_node(ev) ==
    [id |-> ev.id, type |-> ev.type, ticker |-> ev.ticker,
     ts |-> IsoFormat(ev.ts), attrs |-> ev.attrs, summary |-> ev.summary]

\* The events the producers deliver in the model: a news item; a price
\* event on the same ticker within the bar lag of it; a macro release
\* without ticker; and the news item delivered again under the same id
\* with a later timestamp and a rewritten summary (on a graph that lacks
\* the first delivery it is a new event).
EventPool ==
    { Event("n1", "news", "AAPL", 0, <<>>, <<Word("beat")>>),
      Event("n1", "news", "AAPL", 2, <<>>, <<Word("miss")>>),
      Event("p1", "price_event", "AAPL", 1, <<>>, <<Word("jump")>>),
      Event("m1", "macro", NoneVal, 1, <<>>, <<>>) }

\* ------------------------------------------------------------ fixed point
MulFS(a, b) == (a * b) \div FS

RECURSIVE FixPow(_, _)
FixPow(c, r) == IF r = 0 THEN FS ELSE MulFS(c, FixPow(c, r - 1))

\* 2^(-1/h) for the half-lives (in ticks) the configurations use.
StepFactor(h) ==
    CASE h = 1 -> 5000
      [] h = 2 -> 7071
      [] h = 4 -> 8409
      [] h = 6 -> 8909
      [] h = 10 -> 9330
      [] h = 20 -> 9659
      [] h = 90 -> 9923

\* 0.5 ** (days / hl), elapsed and hl both in ticks.
Pow05(elapsed, hl) ==
    MulFS(FS \div (2 ^ (elapsed \div hl)), FixPow(StepFactor(hl), elapsed % hl))

\* ------------------------------------------------------------------- graph
\* G.nodes is an insertion-ordered mapping: a sequence of node records.
NodeIds(ns) == {ns[i].id : i \in 1..Len(ns)}
NodeIndex(ns, id) == CHOOSE i \in 1..Len(ns) : ns[i].id = id
NodeOf(ns, id) == ns[NodeIndex(ns, id)]

\* DynamicCausalGraph.add_event_node
add_event_node_appending(ns, ev) == Append(ns, to_node(ev))

add_event_node_replacing(ns, ev) == <<to_node(ev)>>

add_event_node(ns, ev) ==
    IF ev.id \in NodeIds(ns)
    THEN [ns EXCEPT ![NodeIndex(ns, ev.id)] = to_node(ev)]
    ELSE Append(ns, to_node(ev))

\* DynamicCausalGraph.add_or_update_edge; G's edges are a function from
\* (src, dst) to the edge's data.
Blend(old, new) == (old + new) \div 2

UpdatedEdgeOverwriting(data, weight, polarity, evidence, t) ==
    [weight |-> weight, polarity |-> polarity,
     last_updated |-> IsoFormat(t), evidence |-> Append(data.evidence, evidence)]

UpdatedEdgeLatestEvidence(data, weight, polarity, evidence, t) ==
    [weight |-> Blend(data.weight, weight), polarity |-> polarity,
     last_updated |-> IsoFormat(t), evidence |-> <<evidence>>]

UpdatedEdge(data, weight, polarity, evidence, t) ==
    [weight |-> Blend(data.weight, weight), polarity |-> polarity,
     last_updated |-> IsoFormat(t), evidence |-> Append(data.evidence, evidence)]

CreatedEdge(weight, polarity, evidence, t) ==
    [weight |-> weight, polarity |-> polarity,
     last_updated |-> IsoFormat(t), evidence |-> <<evidence>>]

add_or_update_edge(es, src, dst, weight, polarity, evidence, t) ==
    LET k == <<src, dst>> IN
    IF k \in DOMAIN es
    THEN [es EXCEPT ![k] = UpdatedEdge(es[k], weight, polarity, evidence, t)]
    ELSE [e \in DOMAIN es \cup {k} |->
            IF e = k THEN CreatedEdge(weight, polarity, evidence, t) ELSE es[e]]

\* DynamicCausalGraph.decay
HalfLifeGet(hls, type) ==
    IF type \in DOMAIN hls THEN hls[type] ELSE default_half_life

EdgeHalfLife(hls, ns, k) ==
    Min(HalfLifeGet(hls, NodeOf(ns, k[1]).type),
        HalfLifeGet(hls, NodeOf(ns, k[2]).type))

DecayFactorKeeping(days, hl) == IF hl <= 0 THEN FS ELSE Pow05(days, hl)

DecayFactor(days, hl) == IF hl <= 0 THEN 0 ELSE Pow05(days, hl)

DecayedWeight(hls, ns, k, data, t) ==
    MulFS(data.weight,
          DecayFactor(Max(t - FromIsoFormat(data.last_updated), 0),
                      EdgeHalfLife(hls, ns, k)))

BelowFloorTenth(w) == 10 * w < prune_floor

BelowFloor(w) == w < prune_floor

decay(hls, ns, es, t) ==
    LET to_remove == {k \in DOMAIN es : BelowFloor(DecayedWeight(hls, ns, k, es[k], t))}
    IN  [k \in DOMAIN es \ to_remove |->
            [es[k] EXCEPT !.weight = DecayedWeight(hls, ns, k, es[k], t),
                          !.last_updated = IsoFormat(t)]]

\* DynamicCausalGraph.snapshot
SetToSeq(S) ==
    LET RECURSIVE Build(_)
        Build(T) == IF T = {} THEN <<>>
                    ELSE LET x == CHOOSE y \in T : TRUE
                         IN  <<x>> \o Build(T \ {x})
    IN  Build(S)

\* The "edges" list is built from the edge function; the order networkx
\* lists them in is not modelled (no consumer depends on it).
SnapshotEdge(es, k) ==
    [src |-> k[1], dst |-> k[2], weight |-> es[k].weight,
     polarity |-> es[k].polarity, last_updated |-> es[k].last_updated,
     evidence |-> es[k].evidence]

snapshot(ns, es) ==
    LET ks == SetToSeq(DOMAIN es)
    IN  [nodes |-> ns,
         edges |-> [i \in 1..Len(ks) |-> SnapshotEdge(es, ks[i])]]

\* ------------------------------------------------------------------ gating
\* extract_entities: '$'-cashtags (first one to five capitals after the '$')
\* and whole-word runs of one to five capitals.
TokenEntities(t) ==
    (IF t.cash /\ t.caps THEN {t.p5} ELSE {})
    \cup (IF t.caps /\ t.len <= 5 THEN {t.w} ELSE {})

extract_entities(text) ==
    UNION {TokenEntities(text[i]) : i \in 1..Len(text)}

SectorGet(t) == IF t \in DOMAIN sectors THEN sectors[t] ELSE NoneVal
PeersGet(t) == IF t \in DOMAIN peers THEN peers[t] ELSE {}

\* CandidateGenerator._is_plausible
is_plausible(c, cause, effect) ==
    LET ct == cause.attrs.headline \o cause.summary
        et == effect.attrs.headline \o effect.summary
    IN  \/ Truthy(cause.ticker) /\ Truthy(effect.ticker)
           /\ cause.ticker = effect.ticker
        \/ cause.type = "macro" /\ c.allow_macro_to_sector_or_ticker
           /\ Truthy(effect.ticker)
        \/ c.allow_cross_ticker_within_sector
           /\ Truthy(cause.ticker) /\ Truthy(effect.ticker)
           /\ SectorGet(cause.ticker) = SectorGet(effect.ticker)
        \/ c.allow_supply_chain_links
           /\ Truthy(cause.ticker) /\ Truthy(effect.ticker)
           /\ effect.ticker \in PeersGet(cause.ticker)
        \/ Truthy(cause.ticker) /\ cause.ticker \in extract_entities(et)
        \/ Truthy(effect.ticker) /\ effect.ticker \in extract_entities(ct)

MaxLagTimeOnly(c, new_event) == c.max_time_lag_minutes

MaxLag(c, new_event) ==
    IF new_event.type = "price_event"
    THEN c.max_bar_lag_minutes ELSE c.max_time_lag_minutes

\* CandidateGenerator.plausible_pairs: the loop over existing_events from
\* position i on, with the pairs accepted so far.
RECURSIVE PairsFrom(_, _, _, _, _)
PairsFrom(c, new_event, existing, i, pairs) ==
    IF i > Len(existing) THEN pairs
    ELSE LET ev == existing[i] IN
         IF ev.id = new_event.id
            THEN PairsFrom(c, new_event, existing, i + 1, pairs)
         ELSE IF ev.ts >= new_event.ts
            THEN PairsFrom(c, new_event, existing, i + 1, pairs)
         ELSE IF new_event.ts - ev.ts > MaxLag(c, new_event)
            THEN PairsFrom(c, new_event, existing, i + 1, pairs)
         ELSE LET p2 == IF is_plausible(c, ev, new_event)
                        THEN Append(pairs, <<ev, new_event>>) ELSE pairs
              IN  IF Len(p2) >= c.max_candidate_edges_per_node THEN p2
                  ELSE PairsFrom(c, new_event, existing, i + 1, p2)

\* A gate that skips only the events later than the new one: it pairs
\* the new event with its own node.
plausible_pairs_not_later(c, new_event, existing) ==
    LET earlier == SelectSeq(existing, LAMBDA ev : ev.ts <= new_event.ts)
    IN  [i \in 1..Len(earlier) |-> <<earlier[i], new_event>>]

plausible_pairs_unfiltered(c, new_event, existing) ==
    [i \in 1..Len(existing) |-> <<existing[i], new_event>>]

plausible_pairs_recent_first(c, new_event, existing) ==
    LET ps == PairsFrom(c, new_event, existing, 1, <<>>)
    IN  [i \in 1..Len(ps) |-> ps[Len(ps) + 1 - i]]

plausible_pairs(c, new_event, existing) ==
    PairsFrom(c, new_event, existing, 1, <<>>)

\* Orchestrator.insert_event: the Event rebuilt from a snapshot node.
NodeToEvent(n) ==
    [id |-> n.id, type |-> n.type, ticker |-> n.ticker,
     ts |-> FromIsoFormat(n.ts), attrs |-> n.attrs, summary |-> n.summary]

ExistingEvents(ns) == [i \in 1..Len(ns) |-> NodeToEvent(ns[i])]

\* ------------------------------------------------------------------ budget
\* date.today(): the calendar date of the machine's local time zone.
DateToday(t, tz) == (t + tz) \div TicksPerDay
\* The UTC calendar date.
UtcDate(t) == t \div TicksPerDay

\* Orchestrator.__init__: edges_per_day_cap and _edges_day_cap.
EdgesDayCap(c) == Max(1, c.daily_usd_cap \div Max(c.est_usd_per_edge, 1))

\* Orchestrator._budget_edge_available: the counter after the lazy reset,
\* the stored day after it, and the result.
BudgetUsedAfterCheck(day, used, today) == IF today # day THEN 0 ELSE used
BudgetDayAfterCheck(day, today) == today
BudgetAvailableBeforeReset(day, used, cap, today) == used < cap

BudgetAvailable(day, used, cap, today) ==
    BudgetUsedAfterCheck(day, used, today) < cap

\* --------------------------------------------------------------- inference
\* 1/(1+exp(-x)) for x >= 0, at half-unit steps, linear in between.
LogisticTable ==
    <<5000, 6225, 7311, 8176, 8808, 9241, 9526, 9707, 9820, 9890, 9933, 9959, 9975>>

logistic(x) ==
    LET step == FS \div 2
        i == x \div step
    IN  IF i + 1 >= Len(LogisticTable) THEN LogisticTable[Len(LogisticTable)]
        ELSE LogisticTable[i + 1]
             + ((LogisticTable[i + 2] - LogisticTable[i + 1]) * (x % step)) \div step

RECURSIVE SumWeights(_, _, _, _)
SumWeights(snap, ticker, sign, i) ==
    IF i > Len(snap.edges) THEN 0
    ELSE LET e == snap.edges[i]
             hit == /\ e.dst \in NodeIds(snap.nodes)
                    /\ NodeOf(snap.nodes, e.dst).ticker = ticker
                    /\ e.polarity * sign > 0
         IN  (IF hit THEN e.weight ELSE 0) + SumWeights(snap, ticker, sign, i + 1)

\* aggregate_edge_signals: (abs(net), sign)
NetSignal(snap, ticker) ==
    SumWeights(snap, ticker, 1, 1) - SumWeights(snap, ticker, -1, 1)

\* probability_of_move and expected_alpha_and_prob
expected_alpha_and_prob(snap, ticker) ==
    LET net == NetSignal(snap, ticker)
    IN  [p |-> logistic((25 * Abs(net)) \div 10),
         expected_sigma |-> Abs(net),
         polarity |-> IF net >= 0 THEN 1 ELSE -1]

maybe_alert_either(ticker, horizon_min, p, expected_sigma, polarity, k_sigma, min_p, t) ==
    IF p >= min_p \/ expected_sigma >= k_sigma
    THEN <<[ts |-> IsoFormat(t), ticker |-> ticker, horizon_min |-> horizon_min,
            direction |-> IF polarity > 0 THEN "UP" ELSE "DOWN",
            probability |-> p, expected_sigma |-> expected_sigma]>>
    ELSE <<>>

\* AlertEngine.maybe_alert: the emitted record, or None.
\* An optional value: <<>> is None, <<v>> is v.
maybe_alert(ticker, horizon_min, p, expected_sigma, polarity, k_sigma, min_p, t) ==
    IF p >= min_p /\ expected_sigma >= k_sigma
    THEN <<[ts |-> IsoFormat(t), ticker |-> ticker, horizon_min |-> horizon_min,
            direction |-> IF polarity > 0 THEN "UP" ELSE "DOWN",
            probability |-> p, expected_sigma |-> expected_sigma]>>
    ELSE <<>>

\* --------------------------------------------------------------- event log
\* EventLog.append: the row (AUTOINCREMENT id, ts, action, payload text).
LogRow(lg, t, action, payload) ==
    [id |-> Len(lg) + 1, ts |-> IsoFormat(t), action |-> action,
     payload |-> JsonDumps(payload)]

LogAppendOverwriting(lg, t, action, payload) ==
    IF lg = <<>> THEN <<LogRow(lg, t, action, payload)>>
    ELSE [lg EXCEPT ![Len(lg)] = [LogRow(lg, t, action, payload) EXCEPT !.id = Len(lg)]]

LogAppend(lg, t, action, payload) == Append(lg, LogRow(lg, t, action, payload))

\* ------------------------------------------------------------------ replay
EDGE_ACTIONS == {"add_edge", "edge_add", "update_edge", "add_or_update_edge", "upsert_edge"}
NODE_ADD_ACTIONS == {"add_node", "node_add", "update_node"}
NODE_PRUNE_ACTIONS == {"prune_node", "node_prune", "remove_node"}
EDGE_PRUNE_ACTIONS == {"prune_edge", "edge_prune", "remove_edge"}

\* dict.get(k) and `a or b`
Get(d, k) == IF k \in DOMAIN d THEN d[k] ELSE NoneVal
GetOr(d, k, dflt) == IF k \in DOMAIN d THEN d[k] ELSE dflt
Or(a, b) == IF Truthy(a) THEN a ELSE b

\* parse_ts: the datetime of an ISO string, None when it does not parse.
\* (<<>> is None, <<t>> is the datetime t.)
parse_ts(ts) == IF ts[1] = "iso" THEN <<FromIsoFormat(ts)>> ELSE <<>>

\* parse_payload: the decoded JSON text, a Python-literal dict, or {}.
\* A JSON text that decodes to a value that is not an object is returned
\* as that value.
parse_payload(raw) ==
    CASE raw.text = "json" -> raw.obj
      [] raw.text = "pyliteral" -> raw.obj
      [] raw.text = "json_nondict" -> [nondict |-> TRUE]
      [] OTHER -> EmptyPayload

RawIsEmptyText(raw) == raw.text = "empty"
IsDict(p) == "nondict" \notin DOMAIN p

\* f"{src}->{dst}"
PairKey(src, dst) == src \o "->" \o dst

\* norm_edge
norm_edge(payload) ==
    LET e == GetOr(payload, "edge", payload)
        src == Or(Get(e, "src"), Get(e, "source"))
        dst == Or(Get(e, "dst"), Get(e, "target"))
        extras == {k \in {"type", "rationale", "experts", "judge"} :
                     k \in DOMAIN e \/ k \in DOMAIN payload}
    IN  IF ~(Truthy(src) /\ Truthy(dst)) THEN <<>>
        ELSE <<[k \in extras |-> IF k \in DOMAIN e THEN e[k] ELSE payload[k]]
               @@ [id |-> Or(Get(e, "id"), PairKey(src, dst)),
                   src |-> src, dst |-> dst,
                   weight |-> GetOr(e, "weight", GetOr(e, "w", 0)),
                   polarity |-> GetOr(e, "polarity", 0),
                   ts |-> IF "ts" \in DOMAIN e THEN e.ts ELSE Get(payload, "ts")]>>

\* norm_node
norm_node(payload) ==
    LET n == GetOr(payload, "node", payload)
    IN  IF "id" \notin DOMAIN n /\ "id" \in DOMAIN payload
        THEN [id |-> payload.id] @@ n ELSE n

\* dict assignment d[k] = v and d.pop(k, None)
Put(d, k, v) == [x \in DOMAIN d \cup {k} |-> IF x = k THEN v ELSE d[x]]
PopKeeping(d, k) == d

Pop(d, k) == [x \in DOMAIN d \ {k} |-> d[x]]

EmptyReplay ==
    [nodes |-> <<>>, edges |-> <<>>, rows |-> 0, applied |-> 0,
     skipped_parse |-> 0, skipped_filter |-> 0, aborted |-> FALSE]

\* One row of main()'s loop applied to the replay state rs; stop tells the
\* loop to break.  A payload that decoded to something other than a dict
\* has no .get: the branches that call it raise and main() ends there.
ReplayRow(row, opts, rs) ==
    LET counted == [rs EXCEPT !.rows = @ + 1]
        raised == [rs |-> [counted EXCEPT !.aborted = TRUE], stop |-> TRUE]
        dt == parse_ts(row.ts)
        payload == parse_payload(row.payload)
        applied == [counted EXCEPT !.applied = @ + 1]
        at == IF dt = <<>> THEN opts.replay_now ELSE dt[1]
    IN  IF opts.since # <<>> /\ at < opts.since[1]
           THEN [rs |-> counted, stop |-> FALSE]
        ELSE IF opts.until # <<>> /\ at >= opts.until[1]
           THEN [rs |-> counted, stop |-> TRUE]
        ELSE IF opts.only # <<>> /\ row.action \notin opts.only[1]
           THEN [rs |-> [counted EXCEPT !.skipped_filter = @ + 1], stop |-> FALSE]
        ELSE IF payload = EmptyPayload /\ ~RawIsEmptyText(row.payload)
           THEN [rs |-> [counted EXCEPT !.skipped_parse = @ + 1], stop |-> FALSE]
        ELSE IF row.action \in NODE_ADD_ACTIONS /\ ~IsDict(payload)
           THEN raised
        ELSE IF row.action \in NODE_ADD_ACTIONS
           THEN LET n == norm_node(payload)
                    nid == Get(n, "id")
                IN  IF Truthy(nid)
                    THEN [rs |-> [applied EXCEPT !.nodes =
                                    Put(@, nid, IF "ts" \in DOMAIN n THEN n
                                                ELSE [ts |-> row.ts] @@ n)],
                          stop |-> FALSE]
                    ELSE [rs |-> counted, stop |-> FALSE]
        ELSE IF row.action \in EDGE_ACTIONS /\ ~IsDict(payload)
           THEN raised
        ELSE IF row.action \in EDGE_ACTIONS
           THEN LET e == norm_edge(payload)
                IN  IF e # <<>>
                    THEN [rs |-> [applied EXCEPT !.edges = Put(@, e[1].id, e[1])],
                          stop |-> FALSE]
                    ELSE [rs |-> counted, stop |-> FALSE]
        ELSE IF opts.ignore_prunes
           THEN [rs |-> counted, stop |-> FALSE]
        ELSE IF row.action \in (NODE_PRUNE_ACTIONS \cup EDGE_PRUNE_ACTIONS)
                /\ ~IsDict(payload)
           THEN raised
        ELSE IF row.action \in NODE_PRUNE_ACTIONS
           THEN LET nid == Or(Get(payload, "id"), Get(payload, "node_id"))
                IN  IF Truthy(nid)
                    THEN [rs |-> [applied EXCEPT !.nodes = Pop(@, nid)],
                          stop |-> FALSE]
                    ELSE [rs |-> counted, stop |-> FALSE]
        ELSE IF row.action \in EDGE_PRUNE_ACTIONS
           THEN LET key == Get(payload, "id")
                    src == Or(Get(payload, "src"), Get(payload, "source"))
                    dst == Or(Get(payload, "dst"), Get(payload, "target"))
                IN  IF Truthy(key) /\ key \in DOMAIN rs.edges
                    THEN [rs |-> [applied EXCEPT !.edges = Pop(@, key)],
                          stop |-> FALSE]
                    ELSE IF Truthy(src) /\ Truthy(dst)
                    THEN [rs |-> [applied EXCEPT !.edges = Pop(@, PairKey(src, dst))],
                          stop |-> FALSE]
                    ELSE [rs |-> counted, stop |-> FALSE]
        ELSE [rs |-> counted, stop |-> FALSE]

RECURSIVE ReplayFrom(_, _, _, _)
ReplayFrom(lg, i, opts, rs) ==
    IF i > Len(lg) THEN rs
    ELSE LET step == ReplayRow(lg[i], opts, rs)
         IN  IF step.stop THEN step.rs
             ELSE ReplayFrom(lg, i + 1, opts, step.rs)

\* main() with no --since, --until, --only-actions and --ignore-prunes.
\* replay_now is the clock reading replay falls back on for a row whose
\* timestamp does not parse; only is the allow-list as a set.
NoOptions ==
    [since |-> <<>>, until |-> <<>>, only |-> <<>>, ignore_prunes |-> FALSE,
     replay_now |-> 0]

Replay(lg, opts) == ReplayFrom(lg, 1, opts, EmptyReplay)

\* ------------------------------------------------------------------ debate
\* What DebateOrchestrator.run_debate hands back to insert_event, by the
\* judge text the backend returned: a JSON object with edge, polarity and
\* confidence; text that is not JSON (the parse_error fallback); JSON that
\* is not an object (returned as decoded); or no result at all, when
\* LLMClient.complete raises.
Judge(edge, polarity, confidence) ==
    [edge |-> edge, polarity |-> polarity, confidence |-> confidence]
JudgeFallback == Judge(0, 0, 0)
JudgeNotAnObject == [nondict |-> TRUE]
ExpertFallback ==
    [vote |-> 0, polarity |-> 0, confidence |-> 0, rationale |-> "parse_error"]
ExpertsStub == <<ExpertFallback>>

JudgeTexts ==
    { Judge(1, 1, 8000), Judge(1, -1, 10000), Judge(1, 1, 3000),
      Judge(0, 1, 9000), JudgeNotAnObject }

\* How long a run_debate call may take, in clock ticks.
DebateDurations == {0, 1}

DebateResult(judge) == [raised |-> FALSE, experts |-> ExpertsStub, judge |-> judge]
DebateRaised == [raised |-> TRUE]
DebateOutcomes == {DebateRaised} \cup {DebateResult(j) : j \in JudgeTexts}

\* insert_event lines 78-86: the judge is usable, affirms the edge, clears
\* the confidence threshold; the blended weight.
JudgeIsDict(judge) == "nondict" \notin DOMAIN judge
JudgeAcceptsOnConfidence(c, judge) ==
    ~(judge.confidence < c.min_confidence_to_add)

JudgeAccepts(c, judge) ==
    /\ judge.edge = 1
    /\ ~(judge.confidence < c.min_confidence_to_add)
BlendedWeightSwapped(c, conf) ==
    MulFS(FS - c.alpha_blend, conf) + MulFS(c.alpha_blend, c.initial_edge_weight)

BlendedWeight(c, conf) ==
    MulFS(c.alpha_blend, conf) + MulFS(FS - c.alpha_blend, c.initial_edge_weight)

\* ------------------------------------------------------------------- state
VARIABLES
    cfg,               \* the loaded Config
    tz,                \* the machine's time-zone offset from UTC
    now,               \* the wall clock
    G_nodes,           \* graph.G nodes
    G_edges,           \* graph.G edges
    event_log,         \* rows of the events table
    alerts_jsonl,      \* lines of the alert sink
    budget_day,        \* Orchestrator._budget_day
    edges_used_today,  \* Orchestrator._edges_used_today
    edges_day_cap,     \* Orchestrator._edges_day_cap
    pc,                \* where the process stands: idle, woke, loop, decay
    cur_ev,            \* insert_event's ev (<<>> outside a call)
    pairs,             \* the candidate pairs the loop has still to handle
    last_pair,         \* the pair handled last and run_debate's result for it
    debate_calls,      \* the run_debate invocations started so far
    budget_checks,     \* the availability checks made so far
    ins,               \* the current (or last) insert_event call, as observed
    cyc,               \* realtime.main's polling cycle: where its loops stand
    call               \* a function called on its own: arguments and result

vars == <<cfg, tz, now, G_nodes, G_edges, event_log, alerts_jsonl, budget_day,
          edges_used_today, edges_day_cap, pc, cur_ev, pairs, last_pair,
          debate_calls, budget_checks, ins, cyc, call>>

graph_vars == <<G_nodes, G_edges>>
budget_vars == <<budget_day, edges_used_today, edges_day_cap>>
config_vars == <<cfg, tz>>
\* What no step of insert_event touches.
outside_vars == <<cyc, call>>

PairId(pr) == <<pr[1].id, pr[2].id>>
PairIds(ps) == [i \in 1..Len(ps) |-> PairId(ps[i])]

NoInsert ==
    [no |-> 0, ev |-> <<>>, reinsert |-> FALSE, pair_ids |-> <<>>, r |-> 0,
     day |-> 0, rolled |-> FALSE, created |-> {}, nodes_before |-> <<>>,
     edges_before |-> {}, log_before |-> 0, rth |-> FALSE, decays |-> 0,
     status |-> "none"]

\* No polling cycle is running (insert_event is driven directly).
NoCycle == [phase |-> "off"]

\* Orchestrator.__init__ on an empty log, at clock reading 0.
Init ==
    /\ \E su \in Setups : cfg = su.cfg /\ tz = su.tz
    /\ now = 0
    /\ G_nodes = <<>>
    /\ G_edges = <<>>
    /\ event_log = <<>>
    /\ alerts_jsonl = <<>>
    /\ budget_day = DateToday(0, tz)
    /\ edges_used_today = 0
    /\ edges_day_cap = EdgesDayCap(cfg)
    /\ pc = "idle"
    /\ cur_ev = <<>>
    /\ pairs = <<>>
    /\ last_pair = <<>>
    /\ debate_calls = <<>>
    /\ budget_checks = <<>>
    /\ ins = NoInsert
    /\ cyc = NoCycle
    /\ call = <<>>

\* realtime.main's time.sleep(interval) between two polling cycles, for
\* the intervals the model samples.
SleepIntervals == {LongWait}

Sleep(d) ==
    /\ pc = "idle"
    /\ now + d <= MaxNow
    /\ now' = now + d
    /\ pc' = "woke"
    /\ UNCHANGED <<outside_vars, config_vars, graph_vars, budget_vars, event_log, alerts_jsonl,
                   cur_ev, pairs, last_pair, debate_calls, budget_checks, ins>>

\* insert_event lines 52-62: node upsert, add_node record, candidate
\* pairs, trading-session gate.  rth is is_rth()'s answer.
GatedPairsSessionOnly(c, ev, rth, ps) ==
    IF c.rth_enforce /\ ~rth THEN <<>> ELSE ps

GatedPairs(c, ev, rth, ps) ==
    IF c.rth_enforce /\ (~rth \/ (c.require_price_event /\ ev.type # "price_event"))
    THEN <<>> ELSE ps

InsertBegin(ev, rth) ==
    /\ pc \in {"idle", "woke"}
    /\ ins.no < MaxInserts
    /\ rth \in (IF cfg.rth_enforce THEN BOOLEAN ELSE {FALSE})
    /\ LET ns == add_event_node(G_nodes, ev)
           ps == GatedPairs(cfg, ev, rth,
                            plausible_pairs(cfg, ev, ExistingEvents(snapshot(ns, G_edges).nodes)))
           today == DateToday(now, tz)
       IN  /\ G_nodes' = ns
           /\ event_log' = LogAppend(event_log, now, "add_node", to_node(ev))
           /\ pairs' = ps
           /\ pc' = IF ps = <<>> THEN "decay" ELSE "loop"
           /\ ins' = [no |-> ins.no + 1, ev |-> <<ev>>,
                      reinsert |-> ev.id \in NodeIds(G_nodes),
                      pair_ids |-> PairIds(ps),
                      r |-> edges_day_cap
                            - BudgetUsedAfterCheck(budget_day, edges_used_today, today),
                      day |-> today, rolled |-> FALSE,
                      created |-> {}, nodes_before |-> G_nodes,
                      edges_before |-> DOMAIN G_edges,
                      log_before |-> Len(event_log),
                      rth |-> rth, decays |-> 0,
                      status |-> "running"]
    /\ cur_ev' = <<ev>>
    /\ last_pair' = <<>>
    /\ UNCHANGED <<outside_vars, config_vars, now, G_edges, budget_vars, alerts_jsonl,
                   debate_calls, budget_checks>>

\* The availability check at the head of the loop body (line 65), as
\* recorded among the checks made.
CheckRecord(today) ==
    [at |-> now, utc_day |-> UtcDate(now), day_before |-> budget_day,
     used_before |-> edges_used_today, today |-> today,
     reset |-> today # budget_day]

AfterPair == IF Len(pairs) = 1 THEN "decay" ELSE "loop"

Handled(result) ==
    <<[src |-> pairs[1][1].id, dst |-> pairs[1][2].id, result |-> result]>>

\* Lines 65-72: the budget is spent; the pair is logged and skipped.
PairBudgetSkip ==
    /\ pc = "loop"
    /\ LET today == DateToday(now, tz)
           used == BudgetUsedAfterCheck(budget_day, edges_used_today, today)
           cause == pairs[1][1]
           effect == pairs[1][2]
       IN  /\ ~BudgetAvailable(budget_day, edges_used_today, edges_day_cap, today)
           /\ budget_day' = BudgetDayAfterCheck(budget_day, today)
           /\ edges_used_today' = used
           /\ budget_checks' = Append(budget_checks, CheckRecord(today))
           /\ event_log' = LogAppend(event_log, now, "budget_skip_pair",
                  [src |-> cause.id, dst |-> effect.id,
                   reason |-> "daily edge cap reached",
                   edges_used_today |-> used, edges_day_cap |-> edges_day_cap])
           /\ ins' = [ins EXCEPT !.rolled = @ \/ today # ins.day]
    /\ pairs' = Tail(pairs)
    /\ pc' = AfterPair
    /\ last_pair' = Handled([skipped |-> TRUE])
    /\ UNCHANGED <<outside_vars, config_vars, now, graph_vars, edges_day_cap, alerts_jsonl,
                   cur_ev, debate_calls>>

\* What every started run_debate leaves behind, whatever comes of it: the
\* check that let it start, the call itself, and the d ticks it took.
DebateStarted(today, d) ==
    /\ Len(debate_calls) < MaxDebates
    /\ now + d <= MaxNow
    /\ now' = now + d
    /\ BudgetAvailable(budget_day, edges_used_today, edges_day_cap, today)
    /\ budget_day' = BudgetDayAfterCheck(budget_day, today)
    /\ budget_checks' = Append(budget_checks, CheckRecord(today))
    /\ debate_calls' = Append(debate_calls,
           [src |-> pairs[1][1].id, dst |-> pairs[1][2].id,
            utc_day |-> UtcDate(now), insert_no |-> ins.no])

\* Line 76: self._edges_used_today += 1
Charged(used) == used + 1

\* Line 75 raises (LLMClient.complete failed): nothing in insert_event
\* catches it, the call ends there with the budget not charged.
PairDebateRaises(d) ==
    /\ pc = "loop"
    /\ LET today == DateToday(now, tz)
       IN  /\ DebateStarted(today, d)
           /\ edges_used_today' = BudgetUsedAfterCheck(budget_day, edges_used_today, today)
           /\ ins' = [ins EXCEPT !.rolled = @ \/ today # ins.day,
                                 !.status = "raised"]
    /\ last_pair' = Handled(DebateRaised)
    /\ pc' = "idle"
    /\ cur_ev' = <<>>
    /\ pairs' = <<>>
    /\ UNCHANGED <<outside_vars, config_vars, graph_vars, edges_day_cap, event_log, alerts_jsonl>>

\* Lines 75-79 with a judge that is not an object: judge.get raises after
\* the budget was charged.
PairJudgeUnusable(d) ==
    /\ pc = "loop"
    /\ LET today == DateToday(now, tz)
       IN  /\ DebateStarted(today, d)
           /\ edges_used_today' =
                  Charged(BudgetUsedAfterCheck(budget_day, edges_used_today, today))
           /\ ins' = [ins EXCEPT !.rolled = @ \/ today # ins.day,
                                 !.status = "raised"]
    /\ last_pair' = Handled(DebateResult(JudgeNotAnObject))
    /\ pc' = "idle"
    /\ cur_ev' = <<>>
    /\ pairs' = <<>>
    /\ UNCHANGED <<outside_vars, config_vars, graph_vars, edges_day_cap, event_log, alerts_jsonl>>

\* Lines 75-84: the judge does not affirm the edge, or not confidently.
PairRejected(judge, d) ==
    /\ pc = "loop"
    /\ JudgeIsDict(judge)
    /\ ~JudgeAccepts(cfg, judge)
    /\ LET today == DateToday(now, tz)
       IN  /\ DebateStarted(today, d)
           /\ edges_used_today' =
                  Charged(BudgetUsedAfterCheck(budget_day, edges_used_today, today))
           /\ ins' = [ins EXCEPT !.rolled = @ \/ today # ins.day]
    /\ last_pair' = Handled(DebateResult(judge))
    /\ pairs' = Tail(pairs)
    /\ pc' = AfterPair
    /\ UNCHANGED <<outside_vars, config_vars, graph_vars, edges_day_cap, event_log,
                   alerts_jsonl, cur_ev>>

\* Lines 75-89: the edge is accepted, upserted and logged.
PairAccepted(judge, d) ==
    /\ pc = "loop"
    /\ JudgeIsDict(judge)
    /\ JudgeAccepts(cfg, judge)
    /\ LET today == DateToday(now, tz)
           cause == pairs[1][1]
           effect == pairs[1][2]
           blended == BlendedWeight(cfg, judge.confidence)
           evidence == [event_id |-> effect.id, judge |-> judge, experts |-> ExpertsStub]
       IN  /\ DebateStarted(today, d)
           /\ edges_used_today' =
                  Charged(BudgetUsedAfterCheck(budget_day, edges_used_today, today))
           /\ G_edges' = add_or_update_edge(G_edges, cause.id, effect.id, blended,
                                            judge.polarity, evidence, now + d)
           /\ event_log' = LogAppend(event_log, now + d, "add_or_update_edge",
                  [src |-> cause.id, dst |-> effect.id, weight |-> blended,
                   polarity |-> judge.polarity])
           /\ ins' = [ins EXCEPT
                        !.rolled = @ \/ today # ins.day,
                        !.created = IF PairId(pairs[1]) \in DOMAIN G_edges THEN @
                                    ELSE @ \cup {[key |-> PairId(pairs[1]),
                                                  judge |-> judge, at |-> now + d]}]
    /\ last_pair' = Handled(DebateResult(judge))
    /\ pairs' = Tail(pairs)
    /\ pc' = AfterPair
    /\ UNCHANGED <<outside_vars, config_vars, G_nodes, edges_day_cap, alerts_jsonl, cur_ev>>

\* Lines 91-100: decay, then the alert for the event's ticker.
AlertFor(c, ns, es, ev, t) ==
    IF Truthy(ev.ticker)
    THEN LET info == expected_alpha_and_prob(snapshot(ns, es), ev.ticker)
         IN  maybe_alert(ev.ticker, c.minutes, info.p, info.expected_sigma,
                         info.polarity, c.spread_sigma_k, c.min_probability, t)
    ELSE <<>>

InsertFinish ==
    /\ pc = "decay"
    /\ LET es == decay(cfg.half_lives, G_nodes, G_edges, now)
           alert == AlertFor(cfg, G_nodes, es, cur_ev[1], now)
       IN  /\ G_edges' = es
           /\ alerts_jsonl' = alerts_jsonl \o alert
           /\ event_log' = IF alert = <<>> THEN event_log
                           ELSE LogAppend(event_log, now, "alert", alert[1])
    /\ ins' = [ins EXCEPT !.status = "returned", !.decays = @ + 1]
    /\ pc' = "idle"
    /\ cur_ev' = <<>>
    /\ UNCHANGED <<outside_vars, config_vars, now, G_nodes, budget_vars, pairs, last_pair,
                   debate_calls, budget_checks>>

Next ==
    \/ \E d \in SleepIntervals : Sleep(d)
    \/ \E ev \in EventPool, rth \in BOOLEAN : InsertBegin(ev, rth)
    \/ PairBudgetSkip
    \/ \E d \in DebateDurations : PairDebateRaises(d)
    \/ \E d \in DebateDurations : PairJudgeUnusable(d)
    \/ \E j \in JudgeTexts, d \in DebateDurations : PairRejected(j, d)
    \/ \E j \in JudgeTexts, d \in DebateDurations : PairAccepted(j, d)
    \/ InsertFinish

Spec == Init /\ [][Next]_vars

\* ------------------------------------------- plausible_pairs on its own
\* The orchestrator as constructed, before any event: everything but the
\* configuration and the function called on its own.
AtRest ==
    /\ tz = 0
    /\ now = 0
    /\ G_nodes = <<>>
    /\ G_edges = <<>>
    /\ event_log = <<>>
    /\ alerts_jsonl = <<>>
    /\ budget_day = DateToday(0, tz)
    /\ edges_used_today = 0
    /\ edges_day_cap = EdgesDayCap(cfg)
    /\ pc = "idle"
    /\ cur_ev = <<>>
    /\ pairs = <<>>
    /\ last_pair = <<>>
    /\ debate_calls = <<>>
    /\ budget_checks = <<>>
    /\ ins = NoInsert
    /\ cyc = NoCycle
rest_vars == <<tz, now, G_nodes, G_edges, event_log, alerts_jsonl, budget_day,
               edges_used_today, edges_day_cap, pc, cur_ev, pairs, last_pair,
               debate_calls, budget_checks, ins, cyc>>

\* GatingConfig with max_candidate_edges_per_node set to m.
GateConfigs ==
    { [BaseConfig EXCEPT !.max_candidate_edges_per_node = m] : m \in 0..GateMaxCap }

\* Timestamps that put a known event at, within and beyond both lag
\* windows of a new event at GateNewTimes.
GateTimes == {0, 1, 2, 18}
GateNewTimes == {2, 18}
GateNewEvents ==
    { Event("c", type, "AAPL", ts, <<>>, <<>>) :
        type \in {"news", "price_event"}, ts \in GateNewTimes }
GateKnownEvents ==
    { Event(id, "news", ticker, ts, <<>>, <<>>) :
        id \in {"a", "b", "c"}, ticker \in {"AAPL", NoneVal}, ts \in GateTimes }

InitGating ==
    /\ cfg \in GateConfigs
    /\ AtRest
    /\ \E ev \in GateNewEvents :
          call = [fn |-> "plausible_pairs", new_event |-> ev,
                  existing_events |-> <<>>, out |-> <<>>]

\* One more event is known when plausible_pairs is called.
GateKnows(ev) ==
    /\ call.out = <<>>
    /\ Len(call.existing_events) < GateMaxKnown
    /\ \A i \in 1..Len(call.existing_events) : call.existing_events[i].id # ev.id
    /\ call' = [call EXCEPT !.existing_events = Append(@, ev)]
    /\ UNCHANGED <<cfg, rest_vars>>

\* self.candidates.plausible_pairs(ev, existing)
GateCalls ==
    /\ call.out = <<>>
    /\ call' = [call EXCEPT !.out =
                  <<plausible_pairs(cfg, call.new_event, call.existing_events)>>]
    /\ UNCHANGED <<cfg, rest_vars>>

NextGating ==
    \/ \E ev \in GateKnownEvents : GateKnows(ev)
    \/ GateCalls

SpecGating == InitGating /\ [][NextGating]_vars

\* ------------------------------------------------- realtime.main's loop
\* The producers polled each cycle, in order: a news feed, then the price
\* bars; and what a fetch() of each may return.
ingestors == <<"news", "bars">>
FetchResults(i) ==
    IF ingestors[i] = "news"
    THEN { <<>>, <<Event("n1", "news", "AAPL", 0, <<>>, <<Word("beat")>>)>> }
    ELSE { <<>>,
           <<Event("p1", "price_event", "AAPL", 1, <<>>, <<Word("jump")>>)>>,
           <<Event("p1", "price_event", "AAPL", 1, <<>>, <<Word("jump")>>),
             Event("n1", "news", "AAPL", 2, <<>>, <<Word("miss")>>)>> }

\* The start of a cycle (line 109-110): nothing polled, nothing added.
CycleStart(no) ==
    [phase |-> "fetch", no |-> no, ing |-> 1, events |-> <<>>, ev |-> <<>>,
     begun_no |-> 0, polled |-> <<>>, fetch_failed |-> {}, fetched |-> <<>>,
     attempts |-> <<>>, added |-> 0, snapshot |-> "none"]

\* The for loop over ingestors moves on: to the next producer, or past
\* the loop to the snapshot.
NextIngestor(c) ==
    IF c.ing = Len(ingestors)
    THEN [c EXCEPT !.phase = "snapshot", !.events = <<>>]
    ELSE [c EXCEPT !.phase = "fetch", !.ing = @ + 1, !.events = <<>>]

\* Lines 114-116: the fetch failed; print and continue.
AfterFetchFailureEndsPolling(c) ==
    [c EXCEPT !.phase = "snapshot", !.events = <<>>,
              !.polled = Append(@, c.ing), !.fetch_failed = @ \cup {c.ing}]

AfterFetchFailureRetrying(c) ==
    [c EXCEPT !.polled = Append(@, c.ing), !.fetch_failed = @ \cup {c.ing}]

AfterFetchFailure(c) ==
    NextIngestor([c EXCEPT !.polled = Append(@, c.ing),
                           !.fetch_failed = @ \cup {c.ing}])

\* Without the except clause of line 122 a raising insert_event would
\* leave the while loop.
AfterInsertUncaught(c, status) ==
    IF status = "raised"
    THEN [c EXCEPT !.phase = "crashed", !.ev = <<>>]
    ELSE [c EXCEPT !.phase = "events", !.ev = <<>>,
                   !.attempts = Append(@, [ev |-> c.ev[1], status |-> status]),
                   !.added = @ + 1]

\* Lines 121-123: insert_event returned (added += 1) or raised (printed).
AfterInsert(c, status) ==
    [c EXCEPT !.phase = "events", !.ev = <<>>,
              !.attempts = Append(@, [ev |-> c.ev[1], status |-> status]),
              !.added = IF status = "returned" THEN @ + 1 ELSE @]

\* The loop runs under a budget of one evaluation a day.
CycleConfig == [BaseConfig EXCEPT !.daily_usd_cap = 0]

InitCycle ==
    /\ cfg = CycleConfig
    /\ tz = 0 /\ now = 0 /\ G_nodes = <<>> /\ G_edges = <<>>
    /\ event_log = <<>> /\ alerts_jsonl = <<>>
    /\ budget_day = DateToday(0, 0) /\ edges_used_today = 0
    /\ edges_day_cap = EdgesDayCap(CycleConfig)
    /\ pc = "idle" /\ cur_ev = <<>> /\ pairs = <<>> /\ last_pair = <<>>
    /\ debate_calls = <<>> /\ budget_checks = <<>> /\ ins = NoInsert
    /\ cyc = CycleStart(1)
    /\ call = <<>>

orchestrator_vars == <<config_vars, now, graph_vars, budget_vars, event_log,
                       alerts_jsonl, pc, cur_ev, pairs, last_pair,
                       debate_calls, budget_checks, ins>>

\* Line 113: ing.fetch() returns a batch.
CycleFetch ==
    /\ cyc.phase = "fetch"
    /\ \E events \in FetchResults(cyc.ing) :
          /\ ins.no + Len(events) <= MaxInserts
          /\ cyc' = [cyc EXCEPT !.phase = "events", !.events = events,
                                !.polled = Append(@, cyc.ing),
                                !.fetched = @ \o events]
    /\ UNCHANGED <<orchestrator_vars, call>>

\* Line 113 raises.
CycleFetchFails ==
    /\ cyc.phase = "fetch"
    /\ cyc' = AfterFetchFailure(cyc)
    /\ UNCHANGED <<orchestrator_vars, call>>

\* Line 118: the next event of the batch, or the batch is done.
CycleNextEvent ==
    /\ cyc.phase = "events"
    /\ cyc' = IF cyc.events = <<>> THEN NextIngestor(cyc)
              ELSE [cyc EXCEPT !.phase = "insert", !.ev = <<Head(cyc.events)>>,
                               !.events = Tail(@), !.begun_no = ins.no]
    /\ UNCHANGED <<orchestrator_vars, call>>

\* Line 120: orch.insert_event(ev) is entered.
CycleInsert(rth) ==
    /\ cyc.phase = "insert"
    /\ ins.no = cyc.begun_no
    /\ InsertBegin(cyc.ev[1], rth)

\* Lines 121-123: the call is over, by return or by an exception caught.
CycleInsertEnded ==
    /\ cyc.phase = "insert"
    /\ ins.no > cyc.begun_no
    /\ pc = "idle"
    /\ cyc' = AfterInsert(cyc, ins.status)
    /\ UNCHANGED <<orchestrator_vars, call>>

\* Lines 126-132: the snapshot is written, or writing it fails and the
\* error is printed.
CycleSnapshot(written) ==
    /\ cyc.phase = "snapshot"
    /\ cyc' = [cyc EXCEPT !.phase = "sleep",
                          !.snapshot = IF written THEN "written" ELSE "error"]
    /\ UNCHANGED <<orchestrator_vars, call>>

\* Line 136: time.sleep(args.interval), then the next cycle.
CycleSleep(d) ==
    /\ cyc.phase = "sleep"
    /\ cyc.no < MaxCycles
    /\ now + d <= MaxNow
    /\ now' = now + d
    /\ cyc' = CycleStart(cyc.no + 1)
    /\ UNCHANGED <<config_vars, graph_vars, budget_vars, event_log, alerts_jsonl,
                   pc, cur_ev, pairs, last_pair, debate_calls, budget_checks,
                   ins, call>>

NextCycle ==
    \/ CycleFetch
    \/ CycleFetchFails
    \/ CycleNextEvent
    \/ \E rth \in BOOLEAN : CycleInsert(rth)
    \/ PairBudgetSkip
    \/ \E d \in DebateDurations : PairDebateRaises(d)
    \/ \E d \in DebateDurations : PairJudgeUnusable(d)
    \/ \E j \in JudgeTexts, d \in DebateDurations : PairRejected(j, d)
    \/ \E j \in JudgeTexts, d \in DebateDurations : PairAccepted(j, d)
    \/ InsertFinish
    \/ CycleInsertEnded
    \/ \E written \in BOOLEAN : CycleSnapshot(written)
    \/ \E d \in SleepIntervals : CycleSleep(d)

SpecCycle == InitCycle /\ [][NextCycle]_vars

\* The loop is one thread that keeps running, and every call it makes
\* (fetch, completion, log append, snapshot write) returns or raises: a
\* step that can be taken is eventually taken.
\* The steps that make a call outside the process, and the bookkeeping
\* between them.
CycleCalls ==
    \/ CycleFetch
    \/ CycleFetchFails
    \/ CycleNextEvent
    \/ \E rth \in BOOLEAN : CycleInsert(rth)
    \/ PairBudgetSkip
    \/ \E d \in DebateDurations : PairDebateRaises(d)
    \/ \E d \in DebateDurations : PairJudgeUnusable(d)
    \/ \E j \in JudgeTexts, d \in DebateDurations : PairRejected(j, d)
    \/ \E j \in JudgeTexts, d \in DebateDurations : PairAccepted(j, d)
    \/ CycleInsertEnded
    \/ \E written \in BOOLEAN : CycleSnapshot(written)

\* The end of insert_event (orchestrator.py:90-100), by what it does to
\* the position in the code: InsertFinish is the only step that leaves
\* "decay", and it can be taken whenever the position is "decay".
InsertFinishes == pc = "decay" /\ pc' = "idle"

SpecCycleFair == SpecCycle /\ WF_vars(CycleCalls) /\ WF_pc(InsertFinishes)

\* ------------------------------------------------- a judge outside 0..1
\* The judge's confidence is whatever number the completion's JSON holds
\* (orchestrator.py:82 float(judge.get("confidence", 0.0))); the prompt
\* asks for 0..1 (llm.py:64) and nothing enforces it: here 1.5 and -0.2.
UnboundedJudgeTexts == { Judge(1, 1, 15000), Judge(1, 1, -2000) }

NextUnclamped ==
    \/ NextCycle
    \/ \E j \in UnboundedJudgeTexts, d \in DebateDurations : PairRejected(j, d)
    \/ \E j \in UnboundedJudgeTexts, d \in DebateDurations : PairAccepted(j, d)

SpecUnclamped == InitCycle /\ [][NextUnclamped]_vars

\* ------------------------------------------------- replay on its own
\* Payload texts a log may hold: the JSON of a dict, text that is neither
\* JSON nor a Python literal, and JSON of a value that is not an object.
GarbageText == [text |-> "other"]
NonObjectJson == [text |-> "json_nondict"]
ReplayNode(id) ==
    [action |-> "add_node",
     payload |-> JsonDumps([id |-> id, type |-> "news", ts |-> IsoFormat(0)])]
ReplayRows ==
    { ReplayNode("a"), ReplayNode("b"),
      [action |-> "add_or_update_edge",
       payload |-> JsonDumps([src |-> "a", dst |-> "b", weight |-> 7250,
                              polarity |-> 1])],
      [action |-> "prune_edge", payload |-> JsonDumps([id |-> "a->b"])],
      [action |-> "prune_edge",
       payload |-> JsonDumps([id |-> "e9", src |-> "a", dst |-> "b"])],
      [action |-> "prune_node", payload |-> JsonDumps([id |-> "a"])],
      [action |-> "add_node", payload |-> GarbageText],
      [action |-> "add_node", payload |-> NonObjectJson],
      [action |-> "alert", payload |-> NonObjectJson] }

InitReplay ==
    /\ cfg = BaseConfig
    /\ AtRest
    /\ call = [fn |-> "rebuild_from_log", ignore_prunes |-> FALSE, out |-> <<>>]

\* The events table holds one more row when the replay is run.
ReplayLogHolds(row) ==
    /\ call.out = <<>>
    /\ Len(event_log) < MaxLogRows
    /\ event_log' = Append(event_log,
           [id |-> Len(event_log) + 1, ts |-> IsoFormat(Len(event_log)),
            action |-> row.action, payload |-> row.payload])
    /\ UNCHANGED <<config_vars, now, graph_vars, budget_vars, alerts_jsonl, pc,
                   cur_ev, pairs, last_pair, debate_calls, budget_checks, ins,
                   cyc, call>>

\* rebuild_from_log.main() over the whole table, no filter, with or
\* without --ignore-prunes.
ReplayOptions(ignore) == [NoOptions EXCEPT !.ignore_prunes = ignore]

ReplayRuns(ignore) ==
    /\ call.out = <<>>
    /\ call' = [call EXCEPT !.out = <<Replay(event_log, ReplayOptions(ignore))>>,
                            !.ignore_prunes = ignore]
    /\ UNCHANGED <<cfg, rest_vars>>

NextReplay ==
    \/ \E row \in ReplayRows : ReplayLogHolds(row)
    \/ \E ignore \in BOOLEAN : ReplayRuns(ignore)

SpecReplay == InitReplay /\ [][NextReplay]_vars

\* The table holds one more add_node row, for a node named after the row,
\* stamped t: the clock that stamps rows need not agree with their order.
BoundedLogHolds(t) ==
    /\ call.out = <<>>
    /\ Len(event_log) < MaxLogRows
    /\ event_log' = Append(event_log,
           [id |-> Len(event_log) + 1, ts |-> IsoFormat(t), action |-> "add_node",
            payload |-> JsonDumps([id |-> "r" \o ToString(Len(event_log) + 1),
                                   type |-> "news", ts |-> IsoFormat(t)])])
    /\ UNCHANGED <<config_vars, now, graph_vars, budget_vars, alerts_jsonl, pc,
                   cur_ev, pairs, last_pair, debate_calls, budget_checks, ins,
                   cyc, call>>

\* rebuild_from_log.main() with --since and/or --until (<<>>: not given).
BoundedRuns(since, until) ==
    /\ call.out = <<>>
    /\ call' = [fn |-> "rebuild_from_log", ignore_prunes |-> FALSE,
                since |-> since, until |-> until,
                out |-> <<Replay(event_log, [NoOptions EXCEPT !.since = since,
                                                              !.until = until])>>]
    /\ UNCHANGED <<cfg, rest_vars>>

NextBounded ==
    \/ \E t \in 0..2 : BoundedLogHolds(t)
    \/ \E since \in {<<>>, <<1>>}, until \in {<<>>, <<2>>} : BoundedRuns(since, until)

SpecBounded == InitReplay /\ [][NextBounded]_vars

\* The table holds one more add_node row whose ts column parse_ts cannot
\* read (a row written by another tool).
UnstampedLogHolds ==
    /\ call.out = <<>>
    /\ Len(event_log) < MaxLogRows
    /\ event_log' = Append(event_log,
           [id |-> Len(event_log) + 1, ts |-> <<"unreadable">>, action |-> "add_node",
            payload |-> JsonDumps([id |-> "r" \o ToString(Len(event_log) + 1),
                                   type |-> "news"])])
    /\ UNCHANGED <<config_vars, now, graph_vars, budget_vars, alerts_jsonl, pc,
                   cur_ev, pairs, last_pair, debate_calls, budget_checks, ins,
                   cyc, call>>

\* Clock readings at which the replay may be run: datetime.now() stands in
\* for a timestamp that does not parse.
ReplayClocks == {1, 3}
ClockedOptions(since, until, clock) ==
    [NoOptions EXCEPT !.since = since, !.until = until, !.replay_now = clock]

ClockedRuns(since, until, clock) ==
    /\ call.out = <<>>
    /\ call' = [fn |-> "rebuild_from_log", ignore_prunes |-> FALSE,
                since |-> since, until |-> until, replay_now |-> clock,
                out |-> <<Replay(event_log, ClockedOptions(since, until, clock))>>]
    /\ UNCHANGED <<cfg, rest_vars>>

NextClocked ==
    \/ \E t \in 0..2 : BoundedLogHolds(t)
    \/ UnstampedLogHolds
    \/ \E since \in {<<>>, <<1>>}, until \in {<<>>, <<2>>}, clock \in ReplayClocks :
          ClockedRuns(since, until, clock)

SpecClocked == InitReplay /\ [][NextClocked]_vars

\* ---------------------------------------- insert_event on a failing log
\* EventLog.append raises (json.dumps or sqlite3 refuses the row): the row
\* is not stored, and insert_event, which catches nothing, ends at the
\* append with whatever it had done by then.
InitPersist ==
    /\ Init
    /\ tz = 0
    /\ cfg \in {BaseConfig, CycleConfig}

\* Line 52 done, line 53 raises.
InsertAppendFails(ev) ==
    /\ pc \in {"idle", "woke"}
    /\ ins.no < MaxInserts
    /\ G_nodes' = add_event_node(G_nodes, ev)
    /\ ins' = [no |-> ins.no + 1, ev |-> <<ev>>,
               reinsert |-> ev.id \in NodeIds(G_nodes),
               pair_ids |-> <<>>,
               r |-> edges_day_cap
                     - BudgetUsedAfterCheck(budget_day, edges_used_today,
                                            DateToday(now, tz)),
               day |-> DateToday(now, tz), rolled |-> FALSE,
               created |-> {}, nodes_before |-> G_nodes,
               edges_before |-> DOMAIN G_edges,
               log_before |-> Len(event_log),
               rth |-> FALSE, decays |-> 0,
               status |-> "append_raised"]
    /\ pc' = "idle"
    /\ cur_ev' = <<>>
    /\ pairs' = <<>>
    /\ last_pair' = <<>>
    /\ UNCHANGED <<outside_vars, config_vars, now, G_edges, budget_vars, event_log,
                   alerts_jsonl, debate_calls, budget_checks>>

\* Lines 65-66: the budget is spent and the budget_skip_pair append raises.
PairSkipAppendFails ==
    /\ pc = "loop"
    /\ LET today == DateToday(now, tz)
       IN  /\ ~BudgetAvailable(budget_day, edges_used_today, edges_day_cap, today)
           /\ budget_day' = BudgetDayAfterCheck(budget_day, today)
           /\ edges_used_today' =
                  BudgetUsedAfterCheck(budget_day, edges_used_today, today)
           /\ budget_checks' = Append(budget_checks, CheckRecord(today))
           /\ ins' = [ins EXCEPT !.rolled = @ \/ today # ins.day,
                                 !.status = "append_raised"]
    /\ last_pair' = Handled([skipped |-> TRUE])
    /\ pc' = "idle"
    /\ cur_ev' = <<>>
    /\ pairs' = <<>>
    /\ UNCHANGED <<outside_vars, config_vars, now, graph_vars, edges_day_cap, event_log,
                   alerts_jsonl, debate_calls>>

\* Lines 75-88 done (the edge is in the graph), line 89 raises.
PairAcceptedAppendFails(judge, d) ==
    /\ pc = "loop"
    /\ JudgeIsDict(judge)
    /\ JudgeAccepts(cfg, judge)
    /\ LET today == DateToday(now, tz)
           cause == pairs[1][1]
           effect == pairs[1][2]
           blended == BlendedWeight(cfg, judge.confidence)
           evidence == [event_id |-> effect.id, judge |-> judge, experts |-> ExpertsStub]
       IN  /\ DebateStarted(today, d)
           /\ edges_used_today' =
                  Charged(BudgetUsedAfterCheck(budget_day, edges_used_today, today))
           /\ G_edges' = add_or_update_edge(G_edges, cause.id, effect.id, blended,
                                            judge.polarity, evidence, now + d)
           /\ ins' = [ins EXCEPT
                        !.rolled = @ \/ today # ins.day,
                        !.created = IF PairId(pairs[1]) \in DOMAIN G_edges THEN @
                                    ELSE @ \cup {[key |-> PairId(pairs[1]),
                                                  judge |-> judge, at |-> now + d]},
                        !.status = "append_raised"]
    /\ last_pair' = Handled(DebateResult(judge))
    /\ pc' = "idle"
    /\ cur_ev' = <<>>
    /\ pairs' = <<>>
    /\ UNCHANGED <<outside_vars, config_vars, G_nodes, edges_day_cap, event_log, alerts_jsonl>>

\* Lines 91-97 done (decay ran, the alert is in the jsonl file), line 98
\* raises.
AlertAppendFails ==
    /\ pc = "decay"
    /\ LET es == decay(cfg.half_lives, G_nodes, G_edges, now)
           alert == AlertFor(cfg, G_nodes, es, cur_ev[1], now)
       IN  /\ alert # <<>>
           /\ G_edges' = es
           /\ alerts_jsonl' = alerts_jsonl \o alert
    /\ ins' = [ins EXCEPT !.status = "append_raised", !.decays = @ + 1]
    /\ pc' = "idle"
    /\ cur_ev' = <<>>
    /\ UNCHANGED <<outside_vars, config_vars, now, G_nodes, budget_vars, event_log, pairs,
                   last_pair, debate_calls, budget_checks>>

NextPersist ==
    \/ Next
    \/ \E ev \in EventPool : InsertAppendFails(ev)
    \/ PairSkipAppendFails
    \/ \E j \in JudgeTexts, d \in DebateDurations : PairAcceptedAppendFails(j, d)
    \/ AlertAppendFails

SpecPersist == InitPersist /\ [][NextPersist]_vars

\* ------------------------------------------------- the process restarts
InitRestart ==
    /\ Init
    /\ tz = 0
    /\ cfg \in {BaseConfig, CycleConfig}

\* The process ends (wherever insert_event stands) and realtime.main runs
\* again: Orchestrator.__init__ makes a new DynamicCausalGraph and opens
\* the EventLog on the same file.  Nothing reads the log or the snapshot
\* file back.
Restart ==
    /\ ins.status \notin {"none", "restarted"}
    /\ G_nodes' = <<>>
    /\ G_edges' = <<>>
    /\ budget_day' = DateToday(now, tz)
    /\ edges_used_today' = 0
    /\ edges_day_cap' = EdgesDayCap(cfg)
    /\ pc' = "idle"
    /\ cur_ev' = <<>>
    /\ pairs' = <<>>
    /\ last_pair' = <<>>
    /\ ins' = [NoInsert EXCEPT !.no = ins.no, !.status = "restarted"]
    /\ UNCHANGED <<outside_vars, config_vars, now, event_log, alerts_jsonl,
                   debate_calls, budget_checks>>

NextRestart ==
    \/ Next
    \/ Restart

SpecRestart == InitRestart /\ [][NextRestart]_vars

\* ---------------------------------------------- _is_plausible on its own
\* GatingConfig with each combination of the three linking switches.
LinkConfigs ==
    { [BaseConfig EXCEPT !.allow_macro_to_sector_or_ticker = m,
                         !.allow_cross_ticker_within_sector = x,
                         !.allow_supply_chain_links = p] :
        m \in BOOLEAN, x \in BOOLEAN, p \in BOOLEAN }

\* Events with a ticker of the universe, one outside it or none, of kind
\* news or macro, whose summary names AAPL, names MSFT or names no ticker.
LinkEvents(id) ==
    { Event(id, type, ticker, 0, <<>>, text) :
        type \in {"news", "macro"},
        ticker \in {"AAPL", "MSFT", "XOM", NoneVal},
        text \in {<<>>, <<Sym("AAPL")>>, <<Word("said"), Sym("MSFT")>>} }

InitPlausible ==
    /\ cfg \in LinkConfigs
    /\ AtRest
    /\ call = [fn |-> "_is_plausible", cause |-> <<>>, effect |-> <<>>,
               out |-> <<>>]

PlausibleCause(ev) ==
    /\ call.cause = <<>>
    /\ call' = [call EXCEPT !.cause = <<ev>>]
    /\ UNCHANGED <<cfg, rest_vars>>

PlausibleEffect(ev) ==
    /\ call.cause # <<>>
    /\ call.effect = <<>>
    /\ call' = [call EXCEPT !.effect = <<ev>>]
    /\ UNCHANGED <<cfg, rest_vars>>

\* self._is_plausible(ev, new_event)
PlausibleCalls ==
    /\ call.effect # <<>>
    /\ call.out = <<>>
    /\ call' = [call EXCEPT !.out =
                  <<is_plausible(cfg, call.cause[1], call.effect[1])>>]
    /\ UNCHANGED <<cfg, rest_vars>>

NextPlausible ==
    \/ \E ev \in LinkEvents("a") : PlausibleCause(ev)
    \/ \E ev \in LinkEvents("c") : PlausibleEffect(ev)
    \/ PlausibleCalls

SpecPlausible == InitPlausible /\ [][NextPlausible]_vars

\* ------------------------------------------------- run_debate on its own
\* EXPERT_ROLES in the dict's insertion order.
EXPERT_ROLES == <<"temporal", "discourse", "precondition", "commonsense">>

\* What json.loads makes of an expert's answer: the object it holds, or
\* the parse_error fallback when the text is not JSON.
ExpertAnswers ==
    { [vote |-> 1, polarity |-> 1, confidence |-> 8000, rationale |-> "ok"],
      ExpertFallback }

InitDebate ==
    /\ cfg = BaseConfig
    /\ AtRest
    /\ \E R \in 1..MaxRounds :
          call = [fn |-> "run_debate", rounds |-> R, round |-> 1, role |-> 1,
                  expert_outputs |-> <<>>, prompts |-> <<>>,
                  status |-> "running", out |-> <<>>]

ExpertPrompt == [to |-> "expert", role |-> EXPERT_ROLES[call.role], round |-> call.round]
JudgePrompt == [to |-> "judge", experts |-> call.expert_outputs]
InExpertRounds == call.status = "running" /\ call.round <= call.rounds
AfterExpertRounds == call.status = "running" /\ call.round > call.rounds

\* Lines 83-91: one expert is prompted and its answer j, tagged with the
\* role, joins this round's outputs (emptied when the round starts).
DebateExpertAnswers(j) ==
    /\ InExpertRounds
    /\ LET last == call.role = Len(EXPERT_ROLES)
           sofar == IF call.role = 1 THEN <<>> ELSE call.expert_outputs
       IN  call' = [call EXCEPT
                      !.prompts = Append(@, ExpertPrompt),
                      !.expert_outputs =
                          Append(sofar, j @@ [role |-> EXPERT_ROLES[call.role]]),
                      !.role = IF last THEN 1 ELSE @ + 1,
                      !.round = IF last THEN @ + 1 ELSE @]
    /\ UNCHANGED <<cfg, rest_vars>>

\* Lines 86-90: the answer is JSON but no object; j["role"] = name raises.
DebateExpertNotAnObject ==
    /\ InExpertRounds
    /\ call' = [call EXCEPT !.prompts = Append(@, ExpertPrompt),
                            !.status = "raised"]
    /\ UNCHANGED <<cfg, rest_vars>>

\* Lines 92-98: the judge is prompted with the outputs kept and the result
\* is returned.
DebateJudgeAnswers(judge) ==
    /\ AfterExpertRounds
    /\ call' = [call EXCEPT
                  !.prompts = Append(@, JudgePrompt),
                  !.status = "returned",
                  !.out = <<[experts |-> call.expert_outputs, judge |-> judge]>>]
    /\ UNCHANGED <<cfg, rest_vars>>

NextDebate ==
    \/ \E j \in ExpertAnswers : DebateExpertAnswers(j)
    \/ DebateExpertNotAnObject
    \/ \E judge \in JudgeTexts : DebateJudgeAnswers(judge)

SpecDebate == InitDebate /\ [][NextDebate]_vars

\* ------------------------------------------------------------------ claims
LastRow(lg) == lg[Len(lg)]
Appended(action) ==
    /\ Len(event_log') = Len(event_log) + 1
    /\ LastRow(event_log').action = action
CallEnded == ins.status \in {"returned", "raised"}
LoggedEdges ==
    { <<event_log[i].payload.obj.src, event_log[i].payload.obj.dst>> :
        i \in {j \in 1..Len(event_log) : event_log[j].action = "add_or_update_edge"} }
\* alpha*confidence + (1-alpha)*initial-edge-weight
ExpectedBlend(conf) ==
    (cfg.alpha_blend * conf + (FS - cfg.alpha_blend) * cfg.initial_edge_weight) \div FS

\* C1: replaying the full log with no filter yields the node ids and the
\* edge ids ("src->dst") of the live graph at the same log position.
C1_ReplayMatchesLive ==
    LET rs == Replay(event_log, NoOptions)
    IN  /\ DOMAIN rs.nodes = NodeIds(G_nodes)
        /\ DOMAIN rs.edges = {PairKey(k[1], k[2]) : k \in DOMAIN G_edges}

\* C2: within one UTC calendar day the number of run_debate invocations
\* started, whatever their outcome, never exceeds the daily cap.
C2_DebatesPerUtcDayWithinCap ==
    \A day \in {debate_calls[i].utc_day : i \in 1..Len(debate_calls)} :
        Cardinality({i \in 1..Len(debate_calls) : debate_calls[i].utc_day = day})
            <= edges_day_cap

\* C3: an availability check resets the used-count exactly when its UTC
\* day differs from the UTC day of the check before it (of construction,
\* for the first check): once per UTC day boundary, never within a day.
C3_ResetExactlyAtUtcDayChange ==
    \A i \in 1..Len(budget_checks) :
        budget_checks[i].reset <=>
            (budget_checks[i].utc_day #
                (IF i = 1 THEN UtcDate(0) ELSE budget_checks[i - 1].utc_day))

\* C4: an insert_event with n ungated pairs and r units of budget left
\* (no day change during the call) evaluates exactly the first min(n, r)
\* pairs in generated order and logs exactly one budget_skip_pair for each
\* of the others.
C4_FirstMinEvaluatedRestSkipped ==
    (CallEnded /\ ~ins.rolled) =>
        LET n == Len(ins.pair_ids)
            m == Min(n, ins.r)
            IsMine(c) == c.insert_no = ins.no
            mine == SelectSeq(debate_calls, IsMine)
            IsSkip(row) == row.id > ins.log_before /\ row.action = "budget_skip_pair"
            skipped == SelectSeq(event_log, IsSkip)
        IN  /\ [i \in 1..Len(mine) |-> <<mine[i].src, mine[i].dst>>]
                 = SubSeq(ins.pair_ids, 1, m)
            /\ [i \in 1..Len(skipped) |->
                    <<skipped[i].payload.obj.src, skipped[i].payload.obj.dst>>]
                 = SubSeq(ins.pair_ids, m + 1, n)

C5_Step ==
    (pc = "loop") =>
        LET k == PairId(pairs[1])
            r == last_pair'[1].result
            affirmed == /\ "judge" \in DOMAIN r
                        /\ "edge" \in DOMAIN r.judge
                        /\ r.judge.edge = 1
                        /\ r.judge.confidence >= cfg.min_confidence_to_add
        IN  /\ (G_edges' # G_edges \/ Appended("add_or_update_edge")) => affirmed
            /\ \A e \in (DOMAIN G_edges \cup DOMAIN G_edges') \ {k} :
                  /\ e \in DOMAIN G_edges /\ e \in DOMAIN G_edges'
                  /\ G_edges'[e] = G_edges[e]

\* C5: handling a pair creates or updates an edge, and appends an
\* add_or_update_edge record, only if the judge returned edge = 1 with
\* confidence >= min_confidence_to_add; any other pair leaves the edge
\* set, the weights and the polarities as they were.
C5_EdgeOnlyOnAffirmedConfidentJudge == [][C5_Step]_vars

\* C5 witness: an edge stands in the graph and the pair handled last was
\* judged edge = 1 below the confidence threshold and got no edge.
C5_Witness ==
    /\ last_pair # <<>>
    /\ "judge" \in DOMAIN last_pair[1].result
    /\ "edge" \in DOMAIN last_pair[1].result.judge
    /\ last_pair[1].result.judge.edge = 1
    /\ last_pair[1].result.judge.confidence < cfg.min_confidence_to_add
    /\ <<last_pair[1].src, last_pair[1].dst>> \notin DOMAIN G_edges
    /\ G_edges # <<>>

\* C6 as stated: once insert_event has returned, an edge it created has
\* weight alpha*confidence + (1-alpha)*initial and the judge's polarity.
C6_CreatedEdgeKeepsBlendAfterInsert ==
    (ins.status = "returned") =>
        \A c \in ins.created :
            /\ c.key \in DOMAIN G_edges
            /\ G_edges[c.key].weight = ExpectedBlend(c.judge.confidence)
            /\ G_edges[c.key].polarity = c.judge.polarity

C6_Step ==
    /\ (Appended("add_or_update_edge")
        /\ PairId(pairs[1]) \notin DOMAIN G_edges) =>
          LET k == PairId(pairs[1])
              judge == last_pair'[1].result.judge
          IN  /\ k \in DOMAIN G_edges'
              /\ G_edges'[k].weight = ExpectedBlend(judge.confidence)
              /\ G_edges'[k].polarity = judge.polarity
    /\ (pc = "decay" /\ pc' = "idle") =>
          \A c \in ins.created :
              LET w == ExpectedBlend(c.judge.confidence)
                  hl == EdgeHalfLife(cfg.half_lives, G_nodes, c.key)
              IN  /\ c.key \in DOMAIN G_edges' =>
                        /\ G_edges'[c.key].weight <= w
                        /\ G_edges'[c.key].weight >= prune_floor
                        /\ G_edges'[c.key].polarity = c.judge.polarity
                  /\ (hl > 0 /\ now = c.at) =>
                        /\ c.key \in DOMAIN G_edges'
                        /\ G_edges'[c.key].weight = w
                  /\ (hl <= 0) => c.key \notin DOMAIN G_edges'

\* C6 amended: the upsert of an accepted pair with no existing edge sets
\* weight alpha*confidence + (1-alpha)*initial and the judge's polarity;
\* the decay step that ends insert_event then multiplies that weight by
\* the decay factor for the time since the upsert, so on return the weight
\* is at most the blend, equal to it when no time has passed and the
\* half-life is positive, and the edge is gone if the half-life is <= 0.
C6_UpsertSetsBlendDecayMayLowerIt == [][C6_Step]_vars

\* C6 witness: insert_event returned having created n1 -> p1 from a judge
\* {edge 1, polarity +1, confidence 0.8}: weight 0.725, polarity +1.
C6_Witness ==
    /\ ins.status = "returned"
    /\ \E c \in ins.created :
          /\ c.key = <<"n1", "p1">>
          /\ c.judge.confidence = 8000
          /\ c.key \in DOMAIN G_edges
          /\ G_edges[c.key].weight = 7250
          /\ G_edges[c.key].polarity = 1

C7_Step ==
    Appended("add_or_update_edge") =>
        LET p == LastRow(event_log').payload.obj
            k == <<p.src, p.dst>>
            judge == last_pair'[1].result.judge
        IN  /\ k \in DOMAIN G_edges'
            /\ G_edges'[k].polarity = p.polarity
            /\ G_edges'[k].last_updated = IsoFormat(now')
            /\ IF k \in DOMAIN G_edges
               THEN /\ G_edges'[k].weight = (G_edges[k].weight + p.weight) \div 2
                    /\ Len(G_edges'[k].evidence) = Len(G_edges[k].evidence) + 1
                    /\ SubSeq(G_edges'[k].evidence, 1, Len(G_edges[k].evidence))
                         = G_edges[k].evidence
                    /\ LastRow(G_edges'[k].evidence).judge = judge
               ELSE /\ G_edges'[k].weight = p.weight
                    /\ Len(G_edges'[k].evidence) = 1
                    /\ G_edges'[k].evidence[1].judge = judge

\* C7: add_or_update_edge on an existing edge leaves weight 0.5*wo +
\* 0.5*wn (to the fixed-point resolution), the new polarity, the evidence
\* appended and the timestamp refreshed; on a missing edge it creates the
\* edge with the given weight and polarity and evidence = [evidence].
C7_UpsertBlendsHalfAndHalf == [][C7_Step]_vars

\* C7 witness: an edge created at 0.725 (+1) and updated with 0.865 (-1):
\* weight 0.795, polarity -1, two evidence records.
C7_Witness ==
    \E k \in DOMAIN G_edges :
        /\ Len(G_edges[k].evidence) = 2
        /\ G_edges[k].evidence[1].judge.polarity = 1
        /\ G_edges[k].evidence[2].judge.polarity = -1
        /\ G_edges[k].polarity = -1
        /\ G_edges[k].weight = 7950

C8_Step ==
    (pc = "decay" /\ pc' = "idle") =>
        \A k \in DOMAIN G_edges :
            /\ k \in DOMAIN G_edges' => G_edges'[k].weight <= G_edges[k].weight
            /\ DecayedWeight(cfg.half_lives, G_nodes, k, G_edges[k], now)
                  <= G_edges[k].weight
            /\ EdgeHalfLife(cfg.half_lives, G_nodes, k) <= 0 =>
                  /\ DecayedWeight(cfg.half_lives, G_nodes, k, G_edges[k], now) = 0
                  /\ k \notin DOMAIN G_edges'

\* C8: decay never increases an edge's weight, and the weight becomes 0
\* (so the edge is pruned) when the edge's effective half-life is <= 0.
C8_DecayNeverIncreases == [][C8_Step]_vars

\* C8 witness: after a returned insert_event an edge upserted once stands
\* with less than the weight it was given: time passed and decay acted.
C8_Witness ==
    /\ ins.status = "returned"
    /\ \E k \in DOMAIN G_edges :
          /\ Len(G_edges[k].evidence) = 1
          /\ G_edges[k].weight < ExpectedBlend(G_edges[k].evidence[1].judge.confidence)

C9_Step ==
    (pc = "decay" /\ pc' = "idle") =>
        LET snap == snapshot(G_nodes', G_edges')
            present == {<<snap.edges[i].src, snap.edges[i].dst>> : i \in 1..Len(snap.edges)}
        IN  /\ \A i \in 1..Len(snap.edges) : snap.edges[i].weight >= prune_floor
            /\ \A k \in DOMAIN G_edges :
                  LET w == DecayedWeight(cfg.half_lives, G_nodes, k, G_edges[k], now)
                  IN  /\ w < prune_floor => k \notin present
                      /\ w >= prune_floor => k \in present

\* C9: after decay no edge below 0.05 remains: an edge whose post-decay
\* weight is below 0.05 is absent from the next snapshot, one at or above
\* 0.05 is still present.
C9_NoEdgeBelowFloorAfterDecay == [][C9_Step]_vars

\* C9 witness: with every half-life positive, insert_event has returned
\* and an edge that was logged is no longer in the graph.
C9_Witness ==
    /\ ins.status = "returned"
    /\ \A t \in DOMAIN cfg.half_lives : cfg.half_lives[t] > 0
    /\ LoggedEdges \ DOMAIN G_edges # {}

ReInserted == ins.status # "none" /\ ins.reinsert

\* C10 as stated: re-inserting an id already in the graph creates neither
\* a duplicate node nor any edge.
C10_ReinsertCreatesNoNodeNoEdge ==
    ReInserted =>
        /\ Len(G_nodes) = Len(ins.nodes_before)
        /\ DOMAIN G_edges \subseteq ins.edges_before

\* C10 amended: re-inserting an id already in the graph overwrites that
\* node's attributes in place and adds no node; it creates no self-loop
\* and no edge out of the re-inserted id, but its candidate pairs are
\* evaluated as for a new event and may create edges from other known
\* nodes into it.
C10_ReinsertUpdatesNodeEdgesOnlyInto ==
    ReInserted =>
        LET ev == ins.ev[1]
            node == NodeOf(G_nodes, ev.id)
        IN  /\ Len(G_nodes) = Len(ins.nodes_before)
            /\ \A i \in 1..Len(G_nodes) : G_nodes[i].id = ins.nodes_before[i].id
            /\ Cardinality(NodeIds(G_nodes)) = Len(G_nodes)
            /\ node.type = ev.type /\ node.ticker = ev.ticker
            /\ node.ts = IsoFormat(ev.ts) /\ node.attrs = ev.attrs
            /\ node.summary = ev.summary
            /\ \A k \in DOMAIN G_edges \ ins.edges_before :
                  /\ k[2] = ev.id
                  /\ k[1] # ev.id
                  /\ k[1] \in NodeIds(ins.nodes_before)

\* C10 witness: a re-insertion that changed the node's timestamp has
\* returned and left a new edge into the re-inserted node.
C10_Witness ==
    /\ ReInserted
    /\ ins.status = "returned"
    /\ NodeOf(ins.nodes_before, ins.ev[1].id).ts # NodeOf(G_nodes, ins.ev[1].id).ts
    /\ \E k \in DOMAIN G_edges \ ins.edges_before : k[2] = ins.ev[1].id

GateReturned == call.out # <<>>
GatePairs == call.out[1]

\* C11: plausible_pairs never returns a pair with cause.ts >= effect.ts,
\* nor one whose lag effect.ts - cause.ts exceeds the window that applies
\* (max-bar-lag when the effect is a price_event, else max-time-lag).
C11_PairsForwardWithinLagWindow ==
    GateReturned =>
        \A i \in 1..Len(GatePairs) :
            LET cause == GatePairs[i][1]
                effect == GatePairs[i][2]
                window == IF effect.type = "price_event"
                          THEN cfg.max_bar_lag_minutes
                          ELSE cfg.max_time_lag_minutes
            IN  /\ effect = call.new_event
                /\ cause.ts < effect.ts
                /\ effect.ts - cause.ts <= window

\* C11 witness: a price_event was paired with the one known event inside
\* the bar lag while a plausible known event beyond it was left out.
C11_Witness ==
    /\ GateReturned
    /\ call.new_event.type = "price_event"
    /\ Len(GatePairs) = 1
    /\ call.new_event.ts - GatePairs[1][1].ts = cfg.max_bar_lag_minutes
    /\ \E i \in 1..Len(call.existing_events) :
          /\ call.existing_events[i].ticker = "AAPL"
          /\ call.new_event.ts - call.existing_events[i].ts > cfg.max_bar_lag_minutes

\* C12: for every configured maximum candidate count m >= 0,
\* plausible_pairs returns at most m pairs.
C12_AtMostCapPairs ==
    GateReturned => Len(GatePairs) <= cfg.max_candidate_edges_per_node

DebateReturned ==
    /\ last_pair # <<>>
    /\ "raised" \in DOMAIN last_pair[1].result
    /\ ~last_pair[1].result.raised
DebateFailed ==
    /\ last_pair # <<>>
    /\ "raised" \in DOMAIN last_pair[1].result
    /\ last_pair[1].result.raised

\* C13: whatever text the backend returned, once run_debate has got its
\* texts insert_event does not fail: the pair is added or simply not added.
C13_BackendTextNeverFailsInsert ==
    DebateReturned => ins.status # "raised"

\* C14: a failed text-generation call is fatal to its pair only: the
\* insert_event call goes on (remaining pairs, then decay and alert) and
\* returns.
C14_TransportFailureSkipsOnePair ==
    DebateFailed => ins.status \in {"running", "returned"}

\* C18: every insert_event call that has ended has invoked decay() exactly
\* once, whatever happened to its pairs.
C18_DecayOncePerInsert ==
    CallEnded => ins.decays = 1

RECURSIVE WeightSum(_, _)
WeightSum(es, K) ==
    IF K = {} THEN 0
    ELSE LET k == CHOOSE x \in K : TRUE
         IN  es[k].weight + WeightSum(es, K \ {k})
\* (sum of weights of edges into nodes of the ticker with polarity > 0)
\* - (sum of weights of such edges with polarity < 0)
TickerSignal(ns, es, ticker) ==
    LET into == {k \in DOMAIN es : NodeOf(ns, k[2]).ticker = ticker}
    IN  WeightSum(es, {k \in into : es[k].polarity > 0})
        - WeightSum(es, {k \in into : es[k].polarity < 0})
AlertEmitted == Len(alerts_jsonl') = Len(alerts_jsonl) + 1

C16_Step ==
    IF pc = "decay" /\ pc' = "idle"
    THEN LET ev == cur_ev[1]
             signal == TickerSignal(G_nodes, G_edges', ev.ticker)
             probability == logistic((25 * Abs(signal)) \div 10)
         IN  /\ AlertEmitted <=> Appended("alert")
             /\ ~AlertEmitted => (alerts_jsonl' = alerts_jsonl /\ event_log' = event_log)
             /\ IF ev.ticker # NoneVal /\ ev.ticker # ""
                THEN /\ AlertEmitted <=>
                           (/\ probability >= cfg.min_probability
                            /\ Abs(signal) >= cfg.spread_sigma_k)
                     /\ AlertEmitted =>
                           /\ LastRow(alerts_jsonl').ticker = ev.ticker
                           /\ LastRow(alerts_jsonl').direction =
                                 (IF signal >= 0 THEN "UP" ELSE "DOWN")
                           /\ LastRow(event_log').payload.obj = LastRow(alerts_jsonl')
                ELSE ~AlertEmitted
    ELSE alerts_jsonl' = alerts_jsonl /\ ~Appended("alert")

Gated(i) ==
    /\ cfg.rth_enforce
    /\ i.ev # <<>>
    /\ ~i.rth \/ (cfg.require_price_event /\ i.ev[1].type # "price_event")

C17_Step ==
    /\ (ins'.no = ins.no + 1 /\ Gated(ins')) =>
          LET ev == ins'.ev[1] IN
          /\ ev.id \in NodeIds(G_nodes')
          /\ NodeOf(G_nodes', ev.id).ts = IsoFormat(ev.ts)
          /\ NodeOf(G_nodes', ev.id).type = ev.type
          /\ Appended("add_node")
          /\ LastRow(event_log').payload.obj.id = ev.id
          /\ pairs' = <<>>
    /\ (Gated(ins') /\ (ins'.no = ins.no + 1 \/ ins.status = "running")) =>
          /\ debate_calls' = debate_calls
          /\ budget_checks' = budget_checks
          /\ UNCHANGED budget_vars
          /\ ~Appended("budget_skip_pair")
          /\ ~Appended("add_or_update_edge")
          /\ DOMAIN G_edges' \subseteq DOMAIN G_edges
          /\ \A k \in DOMAIN G_edges' :
                /\ G_edges'[k].evidence = G_edges[k].evidence
                /\ G_edges'[k].polarity = G_edges[k].polarity
                /\ G_edges'[k].weight <= G_edges[k].weight

\* C17: with trading-session gating enforced, a call made outside the
\* regular session, or for an event that is not a price_event when
\* require-price-event is set, upserts the node and logs add_node, then
\* discards every candidate pair: no consensus evaluation, no budget
\* check or charge, no edge added or updated, no budget_skip_pair.
C17_GatedCallEvaluatesNothing == [][C17_Step]_vars

\* C17 witness: inside the session a news event with a plausible earlier
\* cause and an edge in the graph was gated (it is not a price_event) and
\* the call returned with the node stored.
C17_Witness ==
    /\ ins.status = "returned"
    /\ Gated(ins)
    /\ ins.rth
    /\ ins.pair_ids = <<>>
    /\ plausible_pairs(cfg, ins.ev[1], ExistingEvents(G_nodes)) # <<>>
    /\ ins.ev[1].id \in NodeIds(G_nodes)
    /\ ins.edges_before # {}

C15_Step ==
    /\ (cyc'.no = cyc.no /\ cyc'.fetch_failed # cyc.fetch_failed) =>
          IF cyc.ing < Len(ingestors)
          THEN cyc'.phase = "fetch" /\ cyc'.ing = cyc.ing + 1
          ELSE cyc'.phase = "snapshot"
    /\ (cyc'.no = cyc.no /\ Len(cyc'.attempts) = Len(cyc.attempts) + 1
        /\ LastRow(cyc'.attempts).status = "raised") =>
          /\ cyc'.phase = "events"
          /\ cyc'.events = cyc.events
          /\ cyc'.ing = cyc.ing
    /\ (cyc'.phase \in {"snapshot", "sleep"}) =>
          /\ cyc'.polled = [i \in 1..Len(ingestors) |-> i]
          /\ [i \in 1..Len(cyc'.attempts) |-> cyc'.attempts[i].ev] = cyc'.fetched

\* C15: within one polling cycle a failed fetch() moves on to the next
\* producer, a failed insert_event moves on to the next event of the same
\* batch, and when the cycle is at its snapshot step every producer has
\* been polled and insert_event has been called for every fetched event.
C15_FailuresDoNotAbortCycle == [][C15_Step]_vars

\* C15 witness: a cycle wrote its snapshot after the first producer's
\* fetch failed and, in the second producer's batch, insert_event raised
\* for one event and returned for the next.
C15_Witness ==
    /\ cyc.phase = "sleep"
    /\ cyc.snapshot = "written"
    /\ 1 \in cyc.fetch_failed
    /\ Len(cyc.attempts) = 2
    /\ cyc.attempts[1].status = "raised"
    /\ cyc.attempts[2].status = "returned"

ReplayEnded == call.out # <<>>

\* C19: replay never aborts on a single bad record: whatever the payloads
\* are, it goes through every row of the log and ends normally.
C19_ReplayGoesThroughEveryRow ==
    ReplayEnded =>
        /\ ~call.out[1].aborted
        /\ call.out[1].rows = Len(event_log)

AppendFailed == ins.status = "append_raised"

\* C20: when a log append fails during insert_event, the call fails and
\* the graph holds exactly the nodes and edges it held before the call.
C20_FailedAppendLeavesGraphAsBefore ==
    AppendFailed =>
        /\ G_nodes = ins.nodes_before
        /\ DOMAIN G_edges = ins.edges_before

\* C21: at any log position, every edge of the live graph is found in the
\* replay of the full log between the same src and dst, with the live
\* edge's weight and polarity.
C21_LiveEdgesRebuiltWithWeightAndPolarity ==
    pc = "idle" =>
        LET rs == Replay(event_log, NoOptions)
        IN  \A k \in DOMAIN G_edges :
                /\ PairKey(k[1], k[2]) \in DOMAIN rs.edges
                /\ rs.edges[PairKey(k[1], k[2])].src = k[1]
                /\ rs.edges[PairKey(k[1], k[2])].dst = k[2]
                /\ rs.edges[PairKey(k[1], k[2])].weight = G_edges[k].weight
                /\ rs.edges[PairKey(k[1], k[2])].polarity = G_edges[k].polarity

\* The graph held no node when the current call began.
FirstIntoEmpty == ins.status # "none" /\ ins.nodes_before = <<>>

C22_Step ==
    /\ (G_nodes = <<>> /\ ins'.no = ins.no + 1) =>
          /\ pairs' = <<>>
          /\ pc' = "decay"
          /\ UNCHANGED <<budget_vars, debate_calls, budget_checks>>
    /\ (FirstIntoEmpty /\ pc = "decay" /\ pc' = "idle") =>
          /\ ins'.status = "returned"
          /\ ins'.pair_ids = <<>>
          /\ Len(snapshot(G_nodes', G_edges').nodes) = 1
          /\ Len(snapshot(G_nodes', G_edges').edges) = 0
          /\ UNCHANGED <<budget_vars, debate_calls, budget_checks>>

\* C22: inserting an event into a graph with no nodes yields no candidate
\* pair, no evaluation and no budget use, and the snapshot afterwards has
\* exactly 1 node and 0 edges.
C22_InsertIntoEmptyGraph == [][C22_Step]_vars

C22_Witness ==
    /\ FirstIntoEmpty
    /\ ins.status = "returned"
    /\ Len(G_nodes) = 1
    /\ G_edges = <<>>

Restarted == ins.status = "restarted" /\ Len(event_log) > 0

\* C23: after a restart with a non-empty log, the graph the orchestrator
\* works on is the one a full replay of the log reconstructs: the nodes
\* logged before the restart are in it.
C23_GraphAfterRestartIsReplayOfLog ==
    Restarted =>
        DOMAIN Replay(event_log, NoOptions).nodes \subseteq NodeIds(G_nodes)

\* The used-count as the availability check of this step leaves it (the
\* day-rollover reset applied).
UsedAfterRollover ==
    BudgetUsedAfterCheck(budget_day, edges_used_today, DateToday(now, tz))

EvaluationRun == Len(debate_calls') = Len(debate_calls) + 1

C24_Step ==
    /\ EvaluationRun => edges_used_today' = UsedAfterRollover + 1
    /\ ~EvaluationRun => edges_used_today' \in {edges_used_today, UsedAfterRollover}

\* C24: each consensus evaluation run for a pair raises the used-count by
\* exactly one whatever its outcome, and no other step of insert_event
\* changes the used-count except through the day-rollover reset.
C24_EveryEvaluationChargesOne == [][C24_Step]_vars

BudgetUnavailable ==
    /\ pc = "loop"
    /\ ~BudgetAvailable(budget_day, edges_used_today, edges_day_cap,
                        DateToday(now, tz))

C25_Step ==
    BudgetUnavailable =>
        /\ Appended("budget_skip_pair")
        /\ SubSeq(event_log', 1, Len(event_log)) = event_log
        /\ LastRow(event_log').payload.obj.src = pairs[1][1].id
        /\ LastRow(event_log').payload.obj.dst = pairs[1][2].id
        /\ pairs' = Tail(pairs)
        /\ UNCHANGED <<graph_vars, budget_vars, debate_calls, alerts_jsonl, now>>

\* C25: when the budget is unavailable for a candidate pair, handling the
\* pair appends exactly one budget_skip_pair record and changes nothing
\* else: no consensus call, same nodes and edges, same used-count.
C25_BudgetSkipOnlyLogs == [][C25_Step]_vars

C25_Witness ==
    /\ last_pair # <<>>
    /\ "skipped" \in DOMAIN last_pair[1].result
    /\ LastRow(event_log).action = "budget_skip_pair"
    /\ edges_used_today = edges_day_cap

\* sub lists elements of full at increasing positions.
IsSubsequence(sub, full) ==
    \E f \in [1..Len(sub) -> 1..Len(full)] :
        /\ \A i \in 1..Len(sub) : full[f[i]] = sub[i]
        /\ \A i, j \in 1..Len(sub) : i < j => f[i] < f[j]

\* C26: in every pair plausible_pairs returns the effect is the new event
\* and the cause a different known event, and the causes come in the
\* order of the caller's list (an order-preserving subsequence of it).
C26_CausesInCallerOrder ==
    GateReturned =>
        /\ \A i \in 1..Len(GatePairs) :
              /\ GatePairs[i][2] = call.new_event
              /\ GatePairs[i][1].id # call.new_event.id
        /\ IsSubsequence([i \in 1..Len(GatePairs) |-> GatePairs[i][1]],
                         call.existing_events)

\* Two causes returned in the caller's order, the later event first.
C26_Witness ==
    /\ GateReturned
    /\ Len(GatePairs) = 2
    /\ GatePairs[1][1].ts > GatePairs[2][1].ts
    /\ GatePairs[1][1] = call.existing_events[1]

PlausibleReturned == call.out # <<>>
TextOf(ev) == ev.attrs.headline \o ev.summary

\* C27: a known event inside the time window is accepted as a cause
\* exactly when one of these holds: same ticker as the effect; the cause
\* is a macro event and macro linking is on; same-sector linking is on and
\* both tickers have the same sector; supply-chain linking is on and the
\* effect's ticker is a peer of the cause's; the cause's ticker is a symbol
\* token of the effect's text; the effect's ticker is one of the cause's.
C27_AcceptedIffOneOfSixPredicates ==
    PlausibleReturned =>
        LET cause == call.cause[1]
            effect == call.effect[1]
            both == Truthy(cause.ticker) /\ Truthy(effect.ticker)
        IN  call.out[1] <=>
               \/ both /\ cause.ticker = effect.ticker
               \/ cause.type = "macro" /\ cfg.allow_macro_to_sector_or_ticker
               \/ cfg.allow_cross_ticker_within_sector /\ both
                  /\ SectorGet(cause.ticker) = SectorGet(effect.ticker)
               \/ cfg.allow_supply_chain_links /\ both
                  /\ effect.ticker \in PeersGet(cause.ticker)
               \/ Truthy(cause.ticker)
                  /\ cause.ticker \in extract_entities(TextOf(effect))
               \/ Truthy(effect.ticker)
                  /\ effect.ticker \in extract_entities(TextOf(cause))

DebateRunEnded == call.status \in {"returned", "raised"}
NRoles == Len(EXPERT_ROLES)

\* C28: with R >= 1 rounds, one run_debate issues exactly R * (number of
\* roles) expert prompts, in role order within each round, then exactly
\* one judge prompt; the judge prompt and the returned experts list hold
\* the final round's outputs only, one per role.
C28_PromptsPerDebate ==
    DebateRunEnded =>
        LET R == call.rounds
            ps == call.prompts
        IN  /\ Len(ps) = R * NRoles + 1
            /\ \A i \in 1..(R * NRoles) :
                  /\ ps[i].to = "expert"
                  /\ ps[i].role = EXPERT_ROLES[((i - 1) % NRoles) + 1]
                  /\ ps[i].round = ((i - 1) \div NRoles) + 1
            /\ ps[Len(ps)].to = "judge"
            /\ call.out # <<>>
            /\ ps[Len(ps)].experts = call.out[1].experts
            /\ Len(call.out[1].experts) = NRoles
            /\ \A k \in 1..NRoles : call.out[1].experts[k].role = EXPERT_ROLES[k]

\* The rows the current (or last) insert_event call has written.
CallRows == SubSeq(event_log, ins.log_before + 1, Len(event_log))
IsPairRow(row) == row.action \in {"budget_skip_pair", "add_or_update_edge"}

CallRowsInOrder ==
    ins.status # "none" =>
        LET rows == CallRows
            prs == SelectSeq(rows, IsPairRow)
        IN  /\ Len(rows) >= 1
            /\ rows[1].action = "add_node"
            /\ rows[1].payload.obj.id = ins.ev[1].id
            /\ \A i \in 2..Len(rows) :
                  \/ IsPairRow(rows[i])
                  \/ /\ rows[i].action = "alert"
                     /\ i = Len(rows)
                     /\ ins.status = "returned"
            /\ IsSubsequence([i \in 1..Len(prs) |->
                                 <<prs[i].payload.obj.src, prs[i].payload.obj.dst>>],
                             ins.pair_ids)

C29_Step ==
    /\ Len(event_log') >= Len(event_log)
    /\ SubSeq(event_log', 1, Len(event_log)) = event_log
    /\ \A i, j \in 1..Len(event_log') :
          i < j => event_log'[i].id < event_log'[j].id
    /\ CallRowsInOrder'

\* C29: the event log only grows, by rows with strictly increasing ids
\* (no row is ever changed or removed), and the rows one insert_event
\* writes come in this order: exactly one add_node row, then the per-pair
\* rows (budget_skip_pair or add_or_update_edge) in generated pair order,
\* then at most one alert row.
C29_LogAppendOnlyAndOrdered == [][C29_Step]_vars

\* A call that wrote an add_node row, then at least one pair row, and
\* last an alert row.
C29_Witness ==
    /\ ins.status = "returned"
    /\ Len(CallRows) >= 3
    /\ CallRows[1].action = "add_node"
    /\ IsPairRow(CallRows[2])
    /\ CallRows[Len(CallRows)].action = "alert"

\* The replay of the log without its last row, under the options used,
\* and the last row's payload.
ReplayBeforeLast ==
    Replay(SubSeq(event_log, 1, Len(event_log) - 1), ReplayOptions(call.ignore_prunes))
LastPayload == parse_payload(LastRow(event_log).payload)
LastRowIsPrune ==
    /\ ReplayEnded
    /\ Len(event_log) > 0
    /\ ~ReplayBeforeLast.aborted
    /\ LastRow(event_log).action \in (NODE_PRUNE_ACTIONS \cup EDGE_PRUNE_ACTIONS)
Without(d, k) == [x \in DOMAIN d \ {k} |-> d[x]]

\* C30: during replay a node-prune or edge-prune record removes the entity
\* it names from the replayed state, unless ignore-prunes is set, and then
\* it changes nothing; an edge-prune record whose explicit id is not among
\* the replayed edges removes the edge stored under "src->dst".
C30_PruneRecordsRemoveUnlessIgnored ==
    LastRowIsPrune =>
        LET before == ReplayBeforeLast
            after == call.out[1]
            p == LastPayload
        IN  IF call.ignore_prunes
            THEN after.nodes = before.nodes /\ after.edges = before.edges
            ELSE IF LastRow(event_log).action \in NODE_PRUNE_ACTIONS
            THEN /\ after.nodes = Without(before.nodes, p.id)
                 /\ after.edges = before.edges
            ELSE /\ after.nodes = before.nodes
                 /\ after.edges =
                      IF p.id \in DOMAIN before.edges
                      THEN Without(before.edges, p.id)
                      ELSE IF "src" \in DOMAIN p
                      THEN Without(before.edges, p.src \o "->" \o p.dst)
                      ELSE before.edges

\* An edge-prune row with an id no replayed edge has removed the edge
\* stored under the pair key.
C30_Witness ==
    /\ LastRowIsPrune
    /\ ~call.ignore_prunes
    /\ LastPayload.id = "e9"
    /\ "a->b" \in DOMAIN ReplayBeforeLast.edges
    /\ "a->b" \notin DOMAIN call.out[1].edges

\* The rows whose timestamp lies in [since, until).
InBounds(row) ==
    /\ call.since = <<>> \/ call.since[1] <= FromIsoFormat(row.ts)
    /\ call.until = <<>> \/ FromIsoFormat(row.ts) < call.until[1]

\* C31: with since/until bounds given, replay applies exactly the records
\* whose timestamp t satisfies since <= t < until, for every log, also
\* when timestamps are not monotone in id.
C31_AppliesExactlyRowsInBounds ==
    ReplayEnded =>
        DOMAIN call.out[1].nodes =
            { event_log[i].payload.obj.id :
                i \in {j \in 1..Len(event_log) : InBounds(event_log[j])} }

\* C32: replay is deterministic: a second replay of the same log with
\* the same bounds, allow-list and ignore-prunes, whenever it is run,
\* yields the same nodes and the same edges with the same attributes.
C32_ReplayAgainGivesSameGraph ==
    ReplayEnded =>
        \A clock \in ReplayClocks :
            LET again == Replay(event_log,
                                ClockedOptions(call.since, call.until, clock))
            IN  /\ again.nodes = call.out[1].nodes
                /\ again.edges = call.out[1].edges

C33_Step ==
    /\ NodeIds(G_nodes) \subseteq NodeIds(G_nodes')
    /\ ins'.status # "none" => ins'.ev[1].id \in NodeIds(G_nodes')

\* C33: nodes are never deleted in normal operation: across insert_event
\* calls the set of node ids only grows, and it holds the id of every
\* event whose insert_event got past the node upsert.
C33_NodeIdsOnlyGrow == [][C33_Step]_vars

\* Three events are in the graph, the last inserted by a call that failed
\* after its node upsert.
C33_Witness ==
    /\ Cardinality(NodeIds(G_nodes)) = 3
    /\ ins.status = "raised"
    /\ ins.ev[1].id \in NodeIds(G_nodes)
    /\ ~ins.reinsert

\* This step is an accepted consensus decision for the pair k.
AcceptedFor(k) ==
    /\ pc = "loop"
    /\ EvaluationRun
    /\ PairId(pairs[1]) = k
    /\ ~last_pair'[1].result.raised
    /\ JudgeIsDict(last_pair'[1].result.judge)
    /\ JudgeAccepts(cfg, last_pair'[1].result.judge)

C34_Step ==
    /\ \A k \in DOMAIN G_edges \cap DOMAIN G_edges' :
          LET old == G_edges[k].evidence
              new == G_edges'[k].evidence
          IN  IF AcceptedFor(k)
              THEN /\ Len(new) = Len(old) + 1
                   /\ SubSeq(new, 1, Len(old)) = old
                   /\ new[Len(new)].judge = last_pair'[1].result.judge
                   /\ new[Len(new)].event_id = k[2]
              ELSE new = old
    /\ \A k \in DOMAIN G_edges' \ DOMAIN G_edges :
          /\ AcceptedFor(k)
          /\ Len(G_edges'[k].evidence) = 1

\* C34: an edge's evidence list is append-only and ordered: while the
\* edge exists each accepted consensus decision for its (src, dst) appends
\* exactly one record at the end, earlier records are never removed,
\* changed or reordered, and rejected or skipped decisions add none.
C34_EvidenceAppendOnly == [][C34_Step]_vars

\* An edge that two accepted decisions have touched.
C34_Witness ==
    \E k \in DOMAIN G_edges :
        /\ Len(G_edges[k].evidence) = 2
        /\ G_edges[k].evidence[1].judge # G_edges[k].evidence[2].judge

\* C35: failed calls are never retried within a cycle: in one polling
\* cycle each producer's fetch is invoked at most once, insert_event at
\* most once per fetched event, and within one insert_event the consensus
\* evaluation of each candidate pair is attempted at most once.
C35_NoRetryWithinCycle ==
    /\ \A i, j \in 1..Len(cyc.polled) : i < j => cyc.polled[i] # cyc.polled[j]
    /\ Len(cyc.attempts) <= Len(cyc.fetched)
    /\ \A i, j \in 1..Len(debate_calls) :
          (i < j /\ debate_calls[i].insert_no = debate_calls[j].insert_no) =>
              <<debate_calls[i].src, debate_calls[i].dst>>
                  # <<debate_calls[j].src, debate_calls[j].dst>>

\* A cycle reached its end after a failed fetch and after an insert_event
\* whose evaluation failed: each was tried once.
C35_Witness ==
    /\ cyc.phase = "sleep"
    /\ cyc.polled = <<1, 2>>
    /\ 1 \in cyc.fetch_failed
    /\ \E i \in 1..Len(cyc.attempts) : cyc.attempts[i].status = "raised"
    /\ Len(debate_calls) = 1

\* C36: every polling cycle terminates: each producer is polled, the
\* insert_event of each fetched event ends (by return or by a caught
\* failure), and the cycle gets past its snapshot-writing step.
CycleDone ==
    /\ cyc.phase = "sleep"
    /\ cyc.snapshot # "none"
    /\ cyc.polled = [i \in 1..Len(ingestors) |-> i]
    /\ Len(cyc.attempts) = Len(cyc.fetched)
    /\ \A i \in 1..Len(cyc.fetched) : cyc.attempts[i].ev = cyc.fetched[i]
    /\ pc = "idle"

C36_EveryCycleTerminates ==
    \A n \in 1..MaxCycles : (cyc.no = n) ~> (cyc.no = n /\ CycleDone)

\* The second cycle is over although in it a fetch raised and an
\* insert_event raised in its evaluation.
C36_Witness ==
    /\ cyc.no = 2
    /\ CycleDone
    /\ cyc.fetch_failed # {}
    /\ \E i \in 1..Len(cyc.attempts) : cyc.attempts[i].status = "raised"

\* C37: with alpha and the initial edge weight configured in [0,1], every
\* edge weight of the live graph stays within [0,1], whatever confidence
\* the judge returns.
C37_WeightsStayInUnitInterval ==
    (cfg.alpha_blend \in 0..FS /\ cfg.initial_edge_weight \in 0..FS) =>
        \A k \in DOMAIN G_edges :
            G_edges[k].weight >= 0 /\ G_edges[k].weight <= FS

\* C38: after any sequence of insert_event calls, re-insertions of an id
\* with a changed timestamp included, every edge of the live graph points
\* forward in time (the timestamp of its source node is strictly earlier
\* than that of its destination node), so the graph has no directed cycle.
BetweenInserts == pc \in {"idle", "woke"}

NodeTime(id) == NodeOf(G_nodes, id).ts[2]

\* Sequences of node ids, one to Len(G_nodes) + 1 long, that follow edges.
WalksOfLength(n) ==
    { w \in [1..n -> NodeIds(G_nodes)] :
        \A i \in 1..(n - 1) : <<w[i], w[i + 1]>> \in DOMAIN G_edges }

HasDirectedCycle ==
    \E n \in 2..(Len(G_nodes) + 1) : \E w \in WalksOfLength(n) : w[1] = w[n]

C38_EdgesPointForwardInTime ==
    BetweenInserts =>
        /\ \A k \in DOMAIN G_edges :
              (k[1] \in NodeIds(G_nodes) /\ k[2] \in NodeIds(G_nodes)) =>
                  NodeTime(k[1]) < NodeTime(k[2])
        /\ ~HasDirectedCycle

\* C39: after any sequence of insert_event calls the live graph has no
\* self-loop and no dangling edge: every edge has src # dst, and both its
\* endpoints are ids of nodes present in the graph.
C39_NoSelfLoopNoDanglingEdge ==
    BetweenInserts =>
        \A k \in DOMAIN G_edges :
            /\ k[1] # k[2]
            /\ k[1] \in NodeIds(G_nodes)
            /\ k[2] \in NodeIds(G_nodes)

\* An insert_event of an id already in the graph returned, so the gate
\* met the new event's own node, and an edge at that node is in the graph.
C39_Witness ==
    /\ BetweenInserts
    /\ ins.status = "returned"
    /\ ins.reinsert
    /\ \E k \in DOMAIN G_edges : ins.ev[1].id \in {k[1], k[2]}

====
